---- MODULE Spec2Model ----
(***************************************************************************)
(* Memory V2 plugin (extensions/memory-v2/index.ts): the line-oriented     *)
(* index store, the entry codec, the hybrid ranker, the relation graph,    *)
(* the auto-linker, the tools registered by register(), and the lazy       *)
(* embedding provider NodeEmbedder; and the relay connection of the        *)
(* browser extension (assets/chrome-extension/background.js).              *)
(*                                                                         *)
(* Numbers.  Scores are exact rationals kept as integers in units of       *)
(* 1/SCALE.  A vector component is an integer in tenths; the values a      *)
(* Float32Array can hold are the multiples of ten, so Fround rounds to     *)
(* that grid.  Time is counted in days; every tool call takes one day.     *)
(***************************************************************************)
EXTENDS Integers, Sequences, FiniteSets, TLC

VARIABLES
    files,      \* the file system: suffix of the path -> file
    now,        \* Date.now(), in days
    plugin,     \* what register() closed over: indexPath, embedder, config
    embedder,   \* the NodeEmbedder instance: pipeline, loading, load count
    callers,    \* async calls of initialize()/embed() suspended at an await
    embedRun,   \* memory_v2_embed between its awaits: pc, index, counters
    last,       \* the last tool call that returned: its inputs and its outcome
    relay       \* the browser relay extension (background.js): its globals

vars == <<files, now, plugin, embedder, callers, embedRun, last, relay>>

(***************************************************************************)
(* Bounds of the model.                                                    *)
(***************************************************************************)
MaxOps == 2          \* tool calls after the start of a behaviour
MaxCallers == 3      \* concurrent callers of one NodeEmbedder
MaxCalls == 2        \* calls each of those callers makes

StartDay == 400      \* value of Date.now() in the initial state, in days

MaxRelayCalls == 2   \* calls of ensureRelayConnection, with requests and tabs
MaxConnectCalls == 3 \* calls of ensureRelayConnection, the connection alone

(***************************************************************************)
(* JavaScript values.                                                      *)
(***************************************************************************)
UNDEF == "<undefined>"          \* a missing string property
UNDEFN == 0 - 1                 \* a missing number property
NOTAGS == <<"<undefined>">>     \* a missing tags array
BADTS == 0 - 999                \* a timestamp Date cannot parse

\* The tabs of the browser and the ids of the commands sent to the relay.
TabIds == {1}
CommandIds == {1}

\* background.js 10-34: the globals after the script was loaded.  A socket
\* is the WebSocket's readyState and the handlers set on it: those of the
\* connection attempt (lines 174-185) or those of the relay (188-190).
NoRelay ==
    [relayWs |-> 0, relayConnectPromise |-> 0, sockets |-> <<>>,
     attempts |-> <<>>, calls |-> <<>>, microtasks |-> <<>>,
     pending |-> {}, requests |-> [id \in CommandIds |-> "none"],
     tabs |-> [t \in TabIds |-> [state |-> "none", sessionId |-> 0]],
     attaching |-> {}, reattach |-> FALSE,
     tabBySession |-> {}, childSessionToTab |-> {}, nextSession |-> 1,
     autoReconnectTimer |-> "null"]

RECURSIVE SeqSum(_)
SeqSum(s) == IF s = <<>> THEN 0 ELSE Head(s) + SeqSum(Tail(s))

RECURSIVE Flatten(_)
Flatten(ss) == IF ss = <<>> THEN <<>> ELSE Head(ss) \o Flatten(Tail(ss))

SeqMap(Op(_), s) == [i \in 1..Len(s) |-> Op(s[i])]

Max2(a, b) == IF a >= b THEN a ELSE b
Min2(a, b) == IF a <= b THEN a ELSE b

(***************************************************************************)
(* Types (index.ts 628-666).                                               *)
(***************************************************************************)
MemoryRelationType ==
    {"caused", "caused_by", "related", "supersedes", "contradicts", "elaborates"}

NoEmbedding == [form |-> "none", vec |-> <<>>]

\* An object that has none of the properties of V2MemoryEntry.
EmptyObject ==
    [id |-> UNDEF, timestamp |-> UNDEFN, date |-> UNDEFN, type |-> UNDEF,
     importance |-> UNDEFN, content |-> UNDEF, file |-> UNDEF, line |-> UNDEFN,
     tags |-> NOTAGS, embedding |-> NoEmbedding, relations |-> <<>>,
     accessCount |-> UNDEFN, lastAccessed |-> UNDEFN]

\* JavaScript truthiness of entry.embedding: an array is always truthy, a
\* string only when it is not empty.
HasEmbedding(e) ==
    \/ e.embedding.form = "array"
    \/ e.embedding.form = "b64" /\ e.embedding.vec # <<>>

(***************************************************************************)
(* Binary embedding utilities.                                             *)
(***************************************************************************)
\* new Float32Array([x])[0]: the nearest value a 32-bit float can hold.
Fround(x) == IF x >= 0 THEN ((x + 5) \div 10) * 10
                       ELSE 0 - (((0 - x) + 5) \div 10) * 10

ToFloat32Array(v) == [i \in 1..Len(v) |-> Fround(v[i])]

\* The four bytes of a float32 value, least significant first: the magnitude
\* (the number of the value on the float32 grid) in three bytes and the sign
\* bit on top of the fourth.
Float32Bytes(x) ==
    LET m == (IF x >= 0 THEN x ELSE 0 - x) \div 10
    IN <<m % 256, (m \div 256) % 256, (m \div 65536) % 256,
         IF x < 0 THEN 128 ELSE 0>>

BytesFloat32(b) ==
    LET m == b[1] + 256 * b[2] + 65536 * b[3]
    IN IF b[4] >= 128 THEN 0 - 10 * m ELSE 10 * m

\* buf.toString("base64"): a string is the sequence of its characters, a
\* character its six bits (0..63) or 64 for the padding "=".
Base64Encode(bytes) ==
    LET n == Len(bytes)
        byte(i) == IF i <= n THEN bytes[i] ELSE 0
        char(j) ==
          LET g == 3 * ((j - 1) \div 4)
              p == (j - 1) % 4
          IN CASE p = 0 -> byte(g + 1) \div 4
               [] p = 1 -> (byte(g + 1) % 4) * 16 + byte(g + 2) \div 16
               [] p = 2 -> IF g + 2 > n THEN 64
                           ELSE (byte(g + 2) % 16) * 4 + byte(g + 3) \div 64
               [] p = 3 -> IF g + 3 > n THEN 64 ELSE byte(g + 3) % 64
    IN [j \in 1..(4 * ((n + 2) \div 3)) |-> char(j)]

\* Buffer.from(b64, "base64")
Base64Decode(b64) ==
    LET bytes(chars) ==
          LET char(j) == IF j <= Len(chars) THEN chars[j] ELSE 0
              byte(i) ==
                LET g == 4 * ((i - 1) \div 3)
                    q == (i - 1) % 3
                IN CASE q = 0 -> char(g + 1) * 4 + char(g + 2) \div 16
                     [] q = 1 -> (char(g + 2) % 16) * 16 + char(g + 3) \div 4
                     [] q = 2 -> (char(g + 3) % 4) * 64 + char(g + 4)
          IN [i \in 1..((Len(chars) * 6) \div 8) |-> byte(i)]
    IN CHOOSE buf \in {bytes(chars) : chars \in {SelectSeq(b64, LAMBDA c : c # 64)}} : TRUE

\* The string form of an embedding: vec holds the characters.
encodeEmbedding(floats) ==
    LET f32 == ToFloat32Array(floats)
        buf == Flatten([i \in 1..Len(f32) |-> Float32Bytes(f32[i])])
    IN [form |-> "b64", vec |-> Base64Encode(buf)]

\* decodeEmbedding as it would be with new Float32Array(buf): one element
\* for every byte.
decodeEmbedding_ElementPerByte(b64) == Base64Decode(b64.vec)

decodeEmbedding(b64) ==
    LET floats(buf) ==
          [i \in 1..(Len(buf) \div 4) |-> BytesFloat32(SubSeq(buf, 4 * i - 3, 4 * i))]
    IN CHOOSE f32 \in {floats(buf) : buf \in {Base64Decode(b64.vec)}} : TRUE

\* null is the empty tuple of a one-element option: <<>> or <<vector>>.
getEmbeddingFloat32(entry) ==
    IF ~HasEmbedding(entry) THEN <<>>
    ELSE IF entry.embedding.form = "b64" THEN <<decodeEmbedding(entry.embedding)>>
    ELSE <<ToFloat32Array(entry.embedding.vec)>>

(***************************************************************************)
(* Vector math.  Vectors of the model have components whose norms are      *)
(* whole numbers, so Math.sqrt is exact.                                   *)
(***************************************************************************)
Dot(a, b) == SeqSum([i \in 1..Len(a) |-> a[i] * b[i]])

Sqrt(n) == CHOOSE r \in 0..100 : r * r = n

\* The similarity in units of 1/25 (the vectors of the model have norm 0 or 50).
cosineSimilarityF32(a, b) ==
    IF Len(a) # Len(b) THEN 0
    ELSE LET denom == Sqrt(Dot(a, a)) * Sqrt(Dot(b, b))
         IN IF denom = 0 THEN 0 ELSE (Dot(a, b) * 25) \div denom

(***************************************************************************)
(* Decay and effective importance, in units of 1/SCALE.  A timestamp that  *)
(* Date cannot parse makes the age, and so the result, NaN.                *)
(***************************************************************************)
SCALE == 10950 * 1000

NaN == 0 - 2000000000

\* decayFactor as it would be with the age taken the wrong way round.
decayFactor_AgeReversed(entry) ==
    LET daysSinceCreation == entry.timestamp - now
    IN Max2(1095, 3650 - 10 * daysSinceCreation)

\* decayFactor in units of 1/3650.
decayFactor(entry) ==
    LET daysSinceCreation == now - entry.timestamp
    IN Max2(1095, 3650 - 10 * daysSinceCreation)

\* accessBoost in units of 1/10.
accessBoost(entry) ==
    Min2(20, 10 + (IF entry.accessCount = UNDEFN THEN 0 ELSE entry.accessCount))

\* importance * decayFactor * accessBoost, in units of 1/36500 (NaN apart).
effectiveImportance(entry) ==
    IF entry.timestamp \in {BADTS, UNDEFN} \/ entry.importance = UNDEFN THEN NaN
    ELSE entry.importance * decayFactor(entry) * accessBoost(entry)

(***************************************************************************)
(* Graph operations.                                                       *)
(***************************************************************************)
\* addRelation as it would be without the test for an identical pair.
addRelation_AlwaysAppends(entry, targetId, relType) ==
    [entry EXCEPT !.relations = Append(@, [id |-> targetId, type |-> relType])]

addRelation(entry, targetId, relType) ==
    IF \E i \in 1..Len(entry.relations) :
          entry.relations[i].id = targetId /\ entry.relations[i].type = relType
    THEN entry
    ELSE [entry EXCEPT !.relations = Append(@, [id |-> targetId, type |-> relType])]

INVERSE_RELATION_Same(t) == t

INVERSE_RELATION(t) ==
    CASE t = "caused" -> "caused_by"
      [] t = "caused_by" -> "caused"
      [] t = "related" -> "related"
      [] t = "supersedes" -> "supersedes"
      [] t = "contradicts" -> "contradicts"
      [] t = "elaborates" -> "elaborates"

(***************************************************************************)
(* Index operations: dates.                                                *)
(***************************************************************************)
\* The calendar day of a timestamp is the timestamp itself (time runs in days).
normalizeDate(value) == IF value \in {BADTS, UNDEFN} THEN now ELSE value

\* ensureDate as it would be without the test of entry.date.
ensureDate_Always(entry) == [entry EXCEPT !.date = normalizeDate(entry.timestamp)]

ensureDate(entry) ==
    IF entry.date = UNDEFN THEN [entry EXCEPT !.date = normalizeDate(entry.timestamp)]
    ELSE entry

(***************************************************************************)
(* Files.  A file is a sequence of lines and the flag eol: whether its     *)
(* content ends with a newline.  A line is a metadata object, an entry,    *)
(* text that is no JSON, an empty line, or a legacy whole-file index: the  *)
(* object {version, lastUpdated, memories, embeddingModel} written either  *)
(* on one line or, as the first version of saveIndex wrote it, by          *)
(* JSON.stringify(index, null, 2) over many.                               *)
(***************************************************************************)
Line(k, e, version, lastUpdated, model, mems, pretty) ==
    [k |-> k, e |-> e, version |-> version, lastUpdated |-> lastUpdated,
     model |-> model, mems |-> mems, pretty |-> pretty]

MetaLine(version, lastUpdated, model) ==
    Line("meta", EmptyObject, version, lastUpdated, model, <<>>, FALSE)
EntryLine(e) == Line("entry", e, UNDEF, UNDEFN, UNDEF, <<>>, FALSE)
BadLine == Line("bad", EmptyObject, UNDEF, UNDEFN, UNDEF, <<>>, FALSE)
BlankLine == Line("blank", EmptyObject, UNDEF, UNDEFN, UNDEF, <<>>, FALSE)
LegacyBlob(version, lastUpdated, model, mems, pretty) ==
    Line("legacy", EmptyObject, version, lastUpdated, model, mems, pretty)

NoFile == [exists |-> FALSE, lines |-> <<>>, eol |-> FALSE]
File(lines, eol) == [exists |-> TRUE, lines |-> lines, eol |-> eol]

\* fs.statSync(path).size === 0
IsEmptyFile(f) == f.lines = <<>> /\ ~f.eol

\* JSON.stringify(x, null, 2) puts every element of a non-empty array on a
\* line of its own; the last one has no trailing comma, so that line alone
\* is JSON (a string or a number).
ScalarLines(blob) ==
    Cardinality({i \in 1..Len(blob.mems) :
                    blob.mems[i].tags # NOTAGS /\ blob.mems[i].tags # <<>>})
    + Cardinality({i \in 1..Len(blob.mems) :
                    blob.mems[i].embedding.form = "array"
                    /\ blob.mems[i].embedding.vec # <<>>})

\* The lines as loadIndex would see them if the first line that JSON.parse
\* rejects ended the loop.
NonBlankLines_UntilMalformed(f) ==
    LET one(l) ==
          CASE l.k = "blank" -> <<>>
            [] l.k = "legacy" /\ ~l.pretty -> <<EntryLine(EmptyObject)>>
            [] l.k = "legacy" /\ l.pretty ->
                 <<BadLine>> \o [i \in 1..ScalarLines(l) |-> EntryLine(EmptyObject)]
            [] OTHER -> <<l>>
        all == Flatten([i \in 1..Len(f.lines) |-> one(f.lines[i])])
        bad == {i \in 1..Len(all) : all[i].k = "bad"}
    IN IF bad = {} THEN all
       ELSE SubSeq(all, 1, (CHOOSE i \in bad : \A j \in bad : i <= j) - 1)

\* The lines of content.split(/\r?\n/) that are not blank, each as what
\* JSON.parse makes of it: "meta", "entry" (any other JSON value that is not
\* null; a value without the properties of an entry is EmptyObject) or "bad".
NonBlankLines(f) ==
    LET one(l) ==
          CASE l.k = "blank" -> <<>>
            [] l.k = "legacy" /\ ~l.pretty -> <<EntryLine(EmptyObject)>>
            [] l.k = "legacy" /\ l.pretty ->
                 <<BadLine>> \o [i \in 1..ScalarLines(l) |-> EntryLine(EmptyObject)]
            [] OTHER -> <<l>>
    IN Flatten([i \in 1..Len(f.lines) |-> one(f.lines[i])])

\* JSON.parse(content) of the whole file: <<>> when it throws, else <<line>>.
ParseWhole(f) ==
    LET nb == SelectSeq(f.lines, LAMBDA l : l.k # "blank")
    IN IF Len(nb) = 1 /\ nb[1].k # "bad" THEN <<nb[1]>> ELSE <<>>

EmptyIndex(version) ==
    [version |-> version, lastUpdated |-> now, memories |-> <<>>,
     embeddingModel |-> UNDEF]

\* loadIndex of a file that exists: the body of its try block, and its catch.
ReadIndex(f) ==
    LET lines == NonBlankLines(f)
        metas == SelectSeq(lines, LAMBDA l : l.k = "meta")
        withVersion == SelectSeq(metas, LAMBDA l : l.version # UNDEF)
        withUpdated == SelectSeq(metas, LAMBDA l : l.lastUpdated # UNDEFN)
        withModel == SelectSeq(metas, LAMBDA l : l.model # UNDEF)
        version == IF withVersion = <<>> THEN "2.1"
                   ELSE withVersion[Len(withVersion)].version
        lastUpdated == IF withUpdated = <<>> THEN now
                       ELSE withUpdated[Len(withUpdated)].lastUpdated
        embeddingModel == IF withModel = <<>> THEN UNDEF
                          ELSE withModel[Len(withModel)].model
        foundMeta == metas # <<>>
        entries == SelectSeq(lines, LAMBDA l : l.k = "entry")
        memories == [i \in 1..Len(entries) |-> ensureDate(entries[i].e)]
        hasMemoriesKey == \E i \in 1..Len(f.lines) : f.lines[i].k = "legacy"
        whole == ParseWhole(f)
    IN IF lines = <<>> THEN EmptyIndex("2.1")
       ELSE IF ~foundMeta /\ memories = <<>> /\ hasMemoriesKey /\ whole # <<>>
       THEN LET legacy == whole[1]
            IN [version |-> IF legacy.version = UNDEF THEN "2.0" ELSE legacy.version,
                lastUpdated |-> IF legacy.lastUpdated = UNDEFN THEN now
                                ELSE legacy.lastUpdated,
                embeddingModel |-> legacy.model,
                memories |-> [i \in 1..Len(legacy.mems) |-> ensureDate(legacy.mems[i])]]
       ELSE [version |-> version, lastUpdated |-> lastUpdated,
             memories |-> memories, embeddingModel |-> embeddingModel]

\* loadIndex as it would be if it gave an absent file the version saveIndex
\* writes.
loadIndex_AbsentAsSaved(f) ==
    IF ~f.exists THEN EmptyIndex("3.0") ELSE ReadIndex(f)

loadIndex(f) ==
    IF ~f.exists THEN EmptyIndex("2.1") ELSE ReadIndex(f)

\* The entry as it would be written without the Array.isArray branch.
Serialized_DateOnly(memory) == ensureDate(memory)

\* What saveIndex and appendEntry hand to JSON.stringify for one entry.
Serialized(memory) ==
    LET entry == ensureDate(memory)
    IN IF entry.embedding.form = "array"
       THEN [entry EXCEPT !.embedding = encodeEmbedding(entry.embedding.vec)]
       ELSE entry

\* The file saveIndex(indexPath, index) writes.
saveIndex(index) ==
    File(<<MetaLine("3.0", now, index.embeddingModel)>>
            \o [i \in 1..Len(index.memories) |-> EntryLine(Serialized(index.memories[i]))],
         TRUE)

\* appendEntry as it would be if it appended the line without the newline
\* in front: after a file that does not end in a newline the entry runs into
\* the last line, and neither is JSON any more.
appendEntry_NoSeparator(f, entry) ==
    IF ~f.exists \/ IsEmptyFile(f)
    THEN File(<<MetaLine("3.0", now, UNDEF), EntryLine(Serialized(entry))>>, TRUE)
    ELSE IF f.eol \/ f.lines = <<>>
    THEN File(f.lines \o <<EntryLine(Serialized(entry))>>, FALSE)
    ELSE File(SubSeq(f.lines, 1, Len(f.lines) - 1) \o <<BadLine>>, FALSE)

\* appendEntry as it would be if it wrote a metadata line in front of every
\* entry it appends.
appendEntry_AlwaysHeader(f, entry) ==
    IF ~f.exists \/ IsEmptyFile(f)
    THEN File(<<MetaLine("3.0", now, UNDEF), EntryLine(Serialized(entry))>>, TRUE)
    ELSE File(f.lines \o (IF f.eol THEN <<BlankLine>> ELSE <<>>)
                      \o <<MetaLine("3.0", now, UNDEF), EntryLine(Serialized(entry))>>,
              FALSE)

\* The file appendEntry(indexPath, entry) leaves, f being the file before.
appendEntry(f, entry) ==
    IF ~f.exists \/ IsEmptyFile(f)
    THEN File(<<MetaLine("3.0", now, UNDEF), EntryLine(Serialized(entry))>>, TRUE)
    ELSE File(f.lines \o (IF f.eol THEN <<BlankLine>> ELSE <<>>)
                      \o <<EntryLine(Serialized(entry))>>,
              FALSE)

\* saveIndex as the first version of the plugin had it: the whole index as one
\* pretty-printed JSON object.
SaveLegacy(index) ==
    File(<<LegacyBlob(index.version, index.lastUpdated, index.embeddingModel,
                      index.memories, TRUE)>>, FALSE)

migrateJsonToJsonl_Overwrites(jsonFile, jsonlFile) ==
    LET legacy == ParseWhole(jsonFile)
    IN IF ~jsonFile.exists \/ legacy = <<>>
       THEN [migrated |-> FALSE, jsonl |-> jsonlFile]
       ELSE [migrated |-> TRUE,
             jsonl |-> saveIndex([version |-> "2.1",
                                  lastUpdated |-> now,
                                  embeddingModel |-> legacy[1].model,
                                  memories |-> [i \in 1..Len(legacy[1].mems) |->
                                                   ensureDate(legacy[1].mems[i])]])]

\* migrateJsonToJsonl(jsonPath, jsonlPath): what it returns and the file at
\* jsonlPath afterwards.
migrateJsonToJsonl(jsonFile, jsonlFile) ==
    LET legacy == ParseWhole(jsonFile)
    IN IF ~jsonFile.exists \/ jsonlFile.exists \/ legacy = <<>>
       THEN [migrated |-> FALSE, jsonl |-> jsonlFile]
       ELSE [migrated |-> TRUE,
             jsonl |-> saveIndex([version |-> "2.1",
                                  lastUpdated |-> now,
                                  embeddingModel |-> legacy[1].model,
                                  memories |-> [i \in 1..Len(legacy[1].mems) |->
                                                   ensureDate(legacy[1].mems[i])]])]

(***************************************************************************)
(* Search.  Strings are lower case; String.includes is the table           *)
(* Substrings: the query terms of the model that occur in a string.        *)
(***************************************************************************)
Substrings(str) ==
    CASE str = "calendar api enabled and tested" -> {"calendar", "api", "cal", "a"}
      [] str = "entry without tags and line" -> {"tags", "a"}
      [] str = "swtpa focus block moved to work calendar" -> {"calendar", "cal", "a"}
      [] str = "calendar" -> {"calendar", "cal", "a"}
      [] str = "api" -> {"api", "a"}
      [] str = "tags" -> {"tags", "a"}
      [] str = "learning" -> {"a"}
      [] str = "decision" -> {}
      [] str = "event" -> {"event"}
      [] OTHER -> {}

\* term.length
TermLength(term) == IF term = "" THEN 0 ELSE IF term = "a" THEN 1 ELSE 3

\* query.toLowerCase().split(/\s+/).filter((t) => t.length > 1), the query
\* being the sequence of its whitespace-delimited tokens.
QueryTerms(query) == SelectSeq(query, LAMBDA t : TermLength(t) > 1)

\* entry.content.toLowerCase(), entry.tags.map(...), entry.type.toLowerCase()
\* throw a TypeError on a missing property.
KeywordThrows(entry) ==
    entry.content = UNDEF \/ entry.tags = NOTAGS \/ entry.type = UNDEF

\* scoreKeywordMatch as it would be without Math.min(score, 1.0).
scoreKeywordMatch_NoClamp(entry, queryTerms) ==
    LET n == Len(queryTerms)
        inContent(t) == t \in Substrings(entry.content)
        inTags(t) == \E i \in 1..Len(entry.tags) : t \in Substrings(entry.tags[i])
        inType(t) == t \in Substrings(entry.type)
        tenths == SeqSum([i \in 1..n |->
                     (IF inContent(queryTerms[i]) THEN 4 ELSE 0)
                     + (IF inTags(queryTerms[i]) THEN 3 ELSE 0)
                     + (IF inType(queryTerms[i]) THEN 2 ELSE 0)])
        matchedTerms == SeqSum([i \in 1..n |->
                     (IF inContent(queryTerms[i]) THEN 1 ELSE 0)
                     + (IF inTags(queryTerms[i]) THEN 1 ELSE 0)
                     + (IF inType(queryTerms[i]) THEN 1 ELSE 0)])
        averaged == IF n > 0 THEN (tenths * (SCALE \div 10)) \div n
                    ELSE tenths * (SCALE \div 10)
        withImportance == averaged + entry.importance * (SCALE \div 50)
        withBonus == IF matchedTerms >= n THEN withImportance + SCALE \div 10
                     ELSE withImportance
    IN IF entry.importance = UNDEFN THEN NaN ELSE withBonus

\* In units of 1/SCALE; NaN when importance is missing.
scoreKeywordMatch(entry, queryTerms) ==
    LET n == Len(queryTerms)
        inContent(t) == t \in Substrings(entry.content)
        inTags(t) == \E i \in 1..Len(entry.tags) : t \in Substrings(entry.tags[i])
        inType(t) == t \in Substrings(entry.type)
        tenths == SeqSum([i \in 1..n |->
                     (IF inContent(queryTerms[i]) THEN 4 ELSE 0)
                     + (IF inTags(queryTerms[i]) THEN 3 ELSE 0)
                     + (IF inType(queryTerms[i]) THEN 2 ELSE 0)])
        matchedTerms == SeqSum([i \in 1..n |->
                     (IF inContent(queryTerms[i]) THEN 1 ELSE 0)
                     + (IF inTags(queryTerms[i]) THEN 1 ELSE 0)
                     + (IF inType(queryTerms[i]) THEN 1 ELSE 0)])
        averaged == IF n > 0 THEN (tenths * (SCALE \div 10)) \div n
                    ELSE tenths * (SCALE \div 10)
        withImportance == averaged + entry.importance * (SCALE \div 50)
        withBonus == IF matchedTerms >= n THEN withImportance + SCALE \div 10
                     ELSE withImportance
    IN IF entry.importance = UNDEFN THEN NaN ELSE Min2(withBonus, SCALE)

\* One element of `scored` as it would be if the hybrid branch were taken for
\* every entry as soon as there is a query vector.
ScoreEntry_HybridWithoutEntryVector(entry, queryTerms, queryEmbedding) ==
    LET keywordScore == IF Len(queryTerms) > 0
                        THEN scoreKeywordMatch(entry, queryTerms) ELSE 0
        hybrid == queryEmbedding # <<>>
        entryEmb == getEmbeddingFloat32(entry)
        semanticScore ==
            IF hybrid /\ entryEmb # <<>>
            THEN cosineSimilarityF32(ToFloat32Array(queryEmbedding[1]), entryEmb[1])
            ELSE 0
        base == IF hybrid
                THEN semanticScore * 3 * (SCALE \div 125) + (keywordScore \div 5) * 2
                ELSE keywordScore
        eff == effectiveImportance(entry)
        score == IF keywordScore = NaN \/ eff = NaN THEN NaN
                 ELSE base + eff * (SCALE \div 3650000)
    IN [entry |-> entry, score |-> score, keywordScore |-> keywordScore,
        semanticScore |-> semanticScore]

\* One element of `scored`: the entry with its three scores. queryEmbedding
\* is <<>> (null) or <<vector>>.
ScoreEntry(entry, queryTerms, queryEmbedding) ==
    LET keywordScore == IF Len(queryTerms) > 0
                        THEN scoreKeywordMatch(entry, queryTerms) ELSE 0
        hybrid == queryEmbedding # <<>> /\ HasEmbedding(entry)
        entryEmb == getEmbeddingFloat32(entry)
        semanticScore ==
            IF hybrid /\ entryEmb # <<>>
            THEN cosineSimilarityF32(ToFloat32Array(queryEmbedding[1]), entryEmb[1])
            ELSE 0
        base == IF hybrid
                THEN semanticScore * 3 * (SCALE \div 125) + (keywordScore \div 5) * 2
                ELSE keywordScore
        eff == effectiveImportance(entry)
        score == IF keywordScore = NaN \/ eff = NaN THEN NaN
                 ELSE base + eff * (SCALE \div 3650000)
    IN [entry |-> entry, score |-> score, keywordScore |-> keywordScore,
        semanticScore |-> semanticScore]

\* scored.sort((a, b) => b.score - a.score): stable, descending.
SortByScore(scored) ==
    LET sorted(s) ==
          LET rank(i) == Cardinality({j \in 1..Len(s) : s[j].score > s[i].score})
                         + Cardinality({j \in 1..i : s[j].score = s[i].score})
          IN [k \in 1..Len(s) |-> s[CHOOSE i \in 1..Len(s) : rank(i) = k]]
    IN CHOOSE r \in {sorted(s) : s \in {scored}} : TRUE

\* Array.prototype.slice(0, end) for an integer end.
Slice0(s, end) ==
    LET e == IF end < 0 THEN Max2(Len(s) + end, 0) ELSE Min2(end, Len(s))
    IN SubSeq(s, 1, e)

\* searchMemories throws when the keyword scorer throws on some entry.
searchMemoriesThrows(index, query) ==
    /\ QueryTerms(query) # <<>>
    /\ \E i \in 1..Len(index.memories) : KeywordThrows(index.memories[i])

\* searchMemories as it would be without its early return.
searchMemories_NoEarlyReturn(index, query, maxResults, minScore, queryEmbedding) ==
    LET queryTerms == QueryTerms(query)
        all == [i \in 1..Len(index.memories) |->
                   ScoreEntry(index.memories[i], queryTerms, queryEmbedding)]
        scored == SelectSeq(all, LAMBDA r : r.score # NaN /\ r.score >= minScore)
    IN Slice0(SortByScore(scored), maxResults)

\* searchMemories as it would be if it needed the query vector.
searchMemories_NothingWithoutVector(index, query, maxResults, minScore, queryEmbedding) ==
    LET queryTerms == QueryTerms(query)
        all == [i \in 1..Len(index.memories) |->
                   ScoreEntry(index.memories[i], queryTerms, queryEmbedding)]
        scored == SelectSeq(all, LAMBDA r : r.score # NaN /\ r.score >= minScore)
    IN IF queryEmbedding = <<>> THEN <<>>
       ELSE Slice0(SortByScore(scored), maxResults)

\* searchMemories, index being what its loadIndex(indexPath) returned.
searchMemories(index, query, maxResults, minScore, queryEmbedding) ==
    LET queryTerms == QueryTerms(query)
        all == [i \in 1..Len(index.memories) |->
                   ScoreEntry(index.memories[i], queryTerms, queryEmbedding)]
        scored == SelectSeq(all, LAMBDA r : r.score # NaN /\ r.score >= minScore)
    IN IF queryTerms = <<>> /\ queryEmbedding = <<>> THEN <<>>
       ELSE Slice0(SortByScore(scored), maxResults)

(***************************************************************************)
(* Graph expansion and auto-linking.                                       *)
(***************************************************************************)
\* memoryById.get(id): the Map keeps the last entry set under a key.
MemoryById(allMemories, id) ==
    LET at == {i \in 1..Len(allMemories) : allMemories[i].id = id}
    IN IF at = {} THEN <<>>
       ELSE <<allMemories[CHOOSE i \in at : \A j \in at : j <= i]>>

\* The inner loop of searchWithGraph over one frontier.
RECURSIVE Layer(_, _, _)
Layer(allMemories, frontier, acc) ==
    IF frontier = <<>> THEN acc
    ELSE LET rel == Head(frontier)
             target == MemoryById(allMemories, rel.id)
         IN IF rel.id \in acc.visited THEN Layer(allMemories, Tail(frontier), acc)
            ELSE Layer(allMemories, Tail(frontier),
                       [visited |-> acc.visited \cup {rel.id},
                        related |-> IF target # <<>> THEN Append(acc.related, target[1])
                                    ELSE acc.related,
                        nextFrontier |-> IF target # <<>>
                                         THEN acc.nextFrontier \o target[1].relations
                                         ELSE acc.nextFrontier])

\* The outer loop: d hops are left.
RECURSIVE Traverse(_, _, _, _, _)
Traverse(allMemories, frontier, visited, related, d) ==
    IF d <= 0 \/ frontier = <<>> THEN related
    ELSE LET acc == Layer(allMemories, frontier,
                          [visited |-> visited, related |-> related,
                           nextFrontier |-> <<>>])
         IN Traverse(allMemories, acc.nextFrontier, acc.visited, acc.related, d - 1)

\* searchWithGraph as it would be with visited seeded with the entry's own id
\* only, not with the ids of the other results.
searchWithGraph_VisitedSelfOnly(allMemories, results, depth) ==
    [i \in 1..Len(results) |->
        LET entry == results[i].entry
        IN [entry |-> [entry EXCEPT
                         !.accessCount = (IF @ = UNDEFN THEN 0 ELSE @) + 1,
                         !.lastAccessed = now],
            score |-> results[i].score,
            related |-> Traverse(allMemories, entry.relations, {entry.id}, <<>>, depth)]]

\* searchWithGraph returns, for every result, the result's own entry object
\* with its access tracking updated, the score and the related entries.  The
\* objects it updates are those of `results`; allMemories is only read.
searchWithGraph(allMemories, results, depth) ==
    LET resultIds == {results[i].entry.id : i \in 1..Len(results)}
    IN [i \in 1..Len(results) |->
          LET entry == results[i].entry
          IN [entry |-> [entry EXCEPT
                           !.accessCount = (IF @ = UNDEFN THEN 0 ELSE @) + 1,
                           !.lastAccessed = now],
              score |-> results[i].score,
              related |-> Traverse(allMemories, entry.relations,
                                   {entry.id} \cup resultIds, <<>>, depth)]]

\* The candidates as they would be without scored.slice(0, 3).
AutoLinkTopN_NoSlice(newEntry, allMemories, threshold) ==
    LET topN(newEmb, embs) ==
          LET sim(i) == cosineSimilarityF32(newEmb[1], embs[i][1])
              cand == SelectSeq([i \in 1..Len(allMemories) |-> i],
                                LAMBDA i : /\ allMemories[i].id # newEntry.id
                                           /\ embs[i] # <<>>
                                           /\ sim(i) * 4 >= threshold)
              scored == [k \in 1..Len(cand) |-> [idx |-> cand[k], score |-> sim(cand[k])]]
              sorted == SortByScore(scored)
          IN [k \in 1..Len(sorted) |-> sorted[k].idx]
    IN CHOOSE t \in {topN(newEmb, embs) :
                       newEmb \in {getEmbeddingFloat32(newEntry)},
                       embs \in {[i \in 1..Len(allMemories) |->
                                    getEmbeddingFloat32(allMemories[i])]}} : TRUE

\* The candidates of autoLinkNewEntry, best first: indexes into allMemories.
\* threshold is in hundredths, similarities are in units of 1/25; newEmb and
\* embs[i] are the vectors getEmbeddingFloat32 returned for newEntry and for
\* allMemories[i].
AutoLinkTopN(newEntry, allMemories, threshold) ==
    LET topN(newEmb, embs) ==
          LET sim(i) == cosineSimilarityF32(newEmb[1], embs[i][1])
              cand == SelectSeq([i \in 1..Len(allMemories) |-> i],
                                LAMBDA i : /\ allMemories[i].id # newEntry.id
                                           /\ embs[i] # <<>>
                                           /\ sim(i) * 4 >= threshold)
              scored == [k \in 1..Len(cand) |-> [idx |-> cand[k], score |-> sim(cand[k])]]
              sorted == SortByScore(scored)
          IN [k \in 1..Min2(3, Len(sorted)) |-> sorted[k].idx]
    IN CHOOSE t \in {topN(newEmb, embs) :
                       newEmb \in {getEmbeddingFloat32(newEntry)},
                       embs \in {[i \in 1..Len(allMemories) |->
                                    getEmbeddingFloat32(allMemories[i])]}} : TRUE

\* The loop over topN: newEntry is the local variable, updated the copy of
\* allMemories that is returned.
RECURSIVE AutoLinkLoop(_, _, _)
AutoLinkLoop(newEntry, updated, topN) ==
    IF topN = <<>> THEN updated
    ELSE LET idx == Head(topN)
             newEntry2 == addRelation(newEntry, updated[idx].id, "related")
         IN AutoLinkLoop(newEntry2,
                         [updated EXCEPT ![idx] = addRelation(@, newEntry2.id, "related")],
                         Tail(topN))

autoLinkNewEntry(newEntry, allMemories, threshold) ==
    IF getEmbeddingFloat32(newEntry) = <<>> THEN allMemories
    ELSE AutoLinkLoop(newEntry, allMemories,
                      AutoLinkTopN(newEntry, allMemories, threshold))

(***************************************************************************)
(* NodeEmbedder.  embedder.loading is "null", "pending" (the promise of    *)
(* the load is not settled) or "settled"; embedder.loads counts the loads  *)
(* started.  A caller is an async call of initialize() or embed() and      *)
(* runs from one await to the next.                                        *)
(***************************************************************************)
NoEmbedder == [pipeline |-> FALSE, loading |-> "null", loads |-> 0]

\* The branch initialize() takes when called: it returns true at once, it
\* awaits the load in flight, or it starts the load and awaits it.
InitializeBranch_NoLoadingCheck(e) ==
    IF e.pipeline THEN "ready" ELSE "load"

\* initialize() as it would be if a failed load were forgotten.
InitializeBranch_RetryAfterFailure(e) ==
    IF e.pipeline THEN "ready"
    ELSE IF e.loading = "pending" THEN "wait"
    ELSE "load"

InitializeBranch(e) ==
    IF e.pipeline THEN "ready"
    ELSE IF e.loading # "null" THEN "wait"
    ELSE "load"

\* The embedder after the synchronous part of initialize().
InitializeSync(e) ==
    IF InitializeBranch(e) = "load"
    THEN [e EXCEPT !.loading = "pending", !.loads = @ + 1]
    ELSE e

IdleCaller == [pc |-> "idle", op |-> "none", calls |-> 0, ret |-> "none"]

\* Caller c calls initialize().
CallInitialize(c) ==
    /\ callers[c].pc = "idle" /\ callers[c].calls < MaxCalls
    /\ embedder' = InitializeSync(embedder)
    /\ callers' = [callers EXCEPT ![c] =
          IF InitializeBranch(embedder) = "ready"
          THEN [pc |-> "idle", op |-> "initialize", calls |-> @.calls + 1, ret |-> "true"]
          ELSE [pc |-> "init_wait", op |-> "initialize", calls |-> @.calls + 1,
                ret |-> "none"]]
    /\ UNCHANGED <<files, now, plugin, embedRun, last, relay>>

\* Caller c calls embed(text).
CallEmbed(c) ==
    /\ callers[c].pc = "idle" /\ callers[c].calls < MaxCalls
    /\ IF embedder.pipeline
       THEN /\ embedder' = embedder
            /\ callers' = [callers EXCEPT ![c] =
                  [pc |-> "pipe_wait", op |-> "embed", calls |-> @.calls + 1,
                   ret |-> "none"]]
       ELSE /\ embedder' = InitializeSync(embedder)
            /\ callers' = [callers EXCEPT ![c] =
                  [pc |-> "init_wait", op |-> "embed", calls |-> @.calls + 1,
                   ret |-> "none"]]
    /\ UNCHANGED <<files, now, plugin, embedRun, last, relay>>

\* `await this.loading` of caller c resumes: initialize() returns
\* !!this.pipeline, and embed() goes on to the pipeline call or returns null.
InitializeResumes(c) ==
    /\ callers[c].pc = "init_wait"
    /\ embedder.loading = "settled"
    /\ callers' = [callers EXCEPT ![c] =
          IF @.op = "initialize"
          THEN [@ EXCEPT !.pc = "idle",
                         !.ret = IF embedder.pipeline THEN "true" ELSE "false"]
          ELSE IF embedder.pipeline THEN [@ EXCEPT !.pc = "pipe_wait"]
          ELSE [@ EXCEPT !.pc = "idle", !.ret = "null"]]
    /\ UNCHANGED <<files, now, plugin, embedder, embedRun, last, relay>>

\* The pipeline call of embed() resolves (a vector) or throws (null).
PipelineResolves(c, ok) ==
    /\ callers[c].pc = "pipe_wait"
    /\ callers' = [callers EXCEPT ![c] =
          [@ EXCEPT !.pc = "idle", !.ret = IF ok THEN "vector" ELSE "null"]]
    /\ UNCHANGED <<files, now, plugin, embedder, embedRun, last, relay>>

\* The load (the import and the construction of the pipeline) settles:
\* this.pipeline is set, or the catch leaves it null.
LoadSettles(ok) ==
    /\ embedder.loading = "pending"
    /\ embedder' = [embedder EXCEPT !.loading = "settled", !.pipeline = ok]
    /\ UNCHANGED <<files, now, plugin, callers, embedRun, last, relay>>

(***************************************************************************)
(* The plugin: register() and the tools it registers.                      *)
(***************************************************************************)
Suffixes == {"json", "jsonl", "idx"}    \* *.json, *.jsonl and any other path

ModelName == "Xenova/all-MiniLM-L6-v2"

\* The vectors the embedding pipeline returns (Float32Array values, norm 1).
PipelineVectors == {<<30, 40>>, <<50, 0>>}

Unregistered ==
    [registered |-> FALSE, configPath |-> UNDEF, indexPath |-> UNDEF,
     provider |-> "none"]

EmbedIdle ==
    [pc |-> "idle",
     index |-> [version |-> UNDEF, lastUpdated |-> UNDEFN, memories |-> <<>>,
                embeddingModel |-> UNDEF],
     i |-> 0, embedded |-> 0, skipped |-> 0, failed |-> 0, limit |-> 0,
     force |-> FALSE]

NoLast ==
    [op |-> "none", threw |-> FALSE, error |-> {}, query |-> <<>>,
     sourceId |-> UNDEF, targetId |-> UNDEF, relType |-> UNDEF,
     results |-> <<>>, searchMode |-> UNDEF, migrated |-> 0, alreadyBinary |-> 0,
     embedded |-> 0, skipped |-> 0, failed |-> 0, linked |-> 0, total |-> 0,
     converted |-> FALSE, appended |-> UNDEF,
     maxResults |-> 0, minScore |-> 0, queryEmbedding |-> <<>>, ranked |-> <<>>,
     arg |-> EmptyObject, at |-> 0, value |-> 0, prev |-> <<>>,
     path |-> UNDEF, loaded |-> <<>>, saved |-> <<>>, limit |-> 0, force |-> FALSE]

ResolvePaths_NoRedirect(configPath) ==
    IF configPath = "jsonl"
    THEN [indexPath |-> configPath, jsonPath |-> "json", jsonlPath |-> configPath]
    ELSE IF configPath = "json"
    THEN [indexPath |-> configPath, jsonPath |-> configPath, jsonlPath |-> "jsonl"]
    ELSE [indexPath |-> configPath, jsonPath |-> UNDEF, jsonlPath |-> UNDEF]

\* The paths register() derives from the configured one: the index path the
\* tools use and the pair handed to migrateJsonToJsonl (UNDEF is null).
ResolvePaths(configPath) ==
    IF configPath = "jsonl"
    THEN [indexPath |-> configPath, jsonPath |-> "json", jsonlPath |-> configPath]
    ELSE IF configPath = "json"
    THEN [indexPath |-> "jsonl", jsonPath |-> configPath, jsonlPath |-> "jsonl"]
    ELSE [indexPath |-> configPath, jsonPath |-> UNDEF, jsonlPath |-> UNDEF]

\* The file system after register() ran the path migration, and its result.
RegisterMigration(configPath, fs) ==
    LET p == ResolvePaths(configPath)
    IN IF p.jsonPath # UNDEF /\ p.jsonlPath # UNDEF
       THEN LET m == migrateJsonToJsonl(fs[p.jsonPath], fs[p.jsonlPath])
            IN [migrated |-> m.migrated, fs |-> [fs EXCEPT ![p.jsonlPath] = m.jsonl]]
       ELSE [migrated |-> FALSE, fs |-> fs]

CanCall == embedRun.pc = "idle" /\ now < StartDay + MaxOps

\* A tool that awaits the embedder resumes once the load has settled.
EmbedderSettled == plugin.provider = "local" => embedder.loading = "settled"

Register(configPath, provider) ==
    /\ CanCall
    /\ LET m == RegisterMigration(configPath, files)
       IN /\ files' = m.fs
          /\ last' = [NoLast EXCEPT !.op = "register", !.converted = m.migrated]
    /\ plugin' = [registered |-> TRUE, configPath |-> configPath,
                  indexPath |-> ResolvePaths(configPath).indexPath,
                  provider |-> provider]
    /\ embedder' = IF provider = "local" THEN InitializeSync(NoEmbedder)
                   ELSE NoEmbedder
    /\ now' = now + 1
    /\ UNCHANGED <<callers, embedRun, relay>>

\* path: entry.file.startsWith("daily/") ? `memory/${entry.file}` : entry.file
\* as the parts of the string.
StartsWithDaily(file) == file \in {"daily/2026-02-11.md", "daily/"}

\* The path as it would be if the test were entry.file.includes("daily/").
FormatPath_Includes(file) ==
    IF file \in {"daily/2026-02-11.md", "daily/", "memory/daily/2026-02-11.md"}
    THEN <<"memory/", file>> ELSE <<file>>

FormatPath(file) == IF StartsWithDaily(file) THEN <<"memory/", file>> ELSE <<file>>

\* Building `formatted` and the text throws a TypeError on a result without
\* file, type or content and on a related entry without content.
FormatThrows(graphResults) ==
    \E i \in 1..Len(graphResults) :
       \/ graphResults[i].entry.file = UNDEF
       \/ graphResults[i].entry.type = UNDEF
       \/ graphResults[i].entry.content = UNDEF
       \/ \E j \in 1..Len(graphResults[i].related) :
             graphResults[i].related[j].content = UNDEF

\* Math.round(score * 100) / 100, the score being in units of 1/SCALE.
RoundScore(score) ==
    IF score = NaN THEN NaN
    ELSE ((2 * score + SCALE \div 100) \div (2 * (SCALE \div 100))) * (SCALE \div 100)

\* Math.round(x * 100) / 100 in hundredths, x being in units of 1/36500.
RoundImportance(x) == IF x = NaN THEN NaN ELSE (2 * x + 365) \div 730

Formatted(graphResults) ==
    [i \in 1..Len(graphResults) |->
        LET r == graphResults[i]
        IN [id |-> r.entry.id, path |-> FormatPath(r.entry.file),
            line |-> r.entry.line, score |-> RoundScore(r.score),
            accessCount |-> r.entry.accessCount,
            effectiveImportance |-> RoundImportance(effectiveImportance(r.entry)),
            relatedMemories |-> [j \in 1..Len(r.related) |-> r.related[j].id]]]

\* The index as it would be saved if memory_v2_search wrote back the entries
\* it returns.
SearchSaved_ResultsOnly(index, graphResults) ==
    [index EXCEPT !.memories = [i \in 1..Len(graphResults) |-> graphResults[i].entry]]

\* What memory_v2_search hands to saveIndex: the index of its own load,
\* whatever searchWithGraph returned.
SearchSaved(index, graphResults) == index

\* memory_v2_search.execute, queryEmbedding being what embedder.embed(query)
\* resolved to.
SearchExecute(query, maxResults, minScore, queryEmbedding) ==
    /\ EmbedderSettled
    /\ queryEmbedding # <<>> => embedder.pipeline
    /\ LET f == files[plugin.indexPath]
           loaded == loadIndex(f)
           throws == searchMemoriesThrows(loaded, query)
           results == searchMemories(loaded, query, maxResults, minScore, queryEmbedding)
           index == loadIndex(f)
           graphResults == searchWithGraph(index.memories, results, 1)
           searchMode == IF queryEmbedding # <<>> THEN "hybrid" ELSE "keyword"
           called == [NoLast EXCEPT !.op = "search", !.query = query,
                                    !.maxResults = maxResults, !.minScore = minScore,
                                    !.queryEmbedding = queryEmbedding]
       IN IF throws
          THEN /\ files' = files
               /\ last' = [called EXCEPT !.threw = TRUE]
          ELSE /\ files' = [files EXCEPT ![plugin.indexPath] =
                                 saveIndex(SearchSaved(index, graphResults))]
               /\ last' = IF FormatThrows(graphResults)
                          THEN [called EXCEPT !.threw = TRUE]
                          ELSE [called EXCEPT !.results = Formatted(graphResults),
                                              !.searchMode = searchMode]
    /\ now' = now + 1
    /\ UNCHANGED <<plugin, embedder, callers, embedRun, relay>>

\* A call of memory_v2_search while no other call is suspended.
SearchTool(query, maxResults, minScore, queryEmbedding) ==
    /\ plugin.registered /\ CanCall
    /\ SearchExecute(query, maxResults, minScore, queryEmbedding)

\* The loop as it would be with the target test in an else branch: an entry
\* that is both source and target gets the forward edge only.
LinkLoop_ElseIf(memories, sourceId, targetId, relType) ==
    [i \in 1..Len(memories) |->
        IF memories[i].id = sourceId
        THEN addRelation(memories[i], targetId, relType)
        ELSE IF memories[i].id = targetId
             THEN addRelation(memories[i], sourceId, INVERSE_RELATION(relType))
             ELSE memories[i]]

\* The loop of memory_v2_link.execute over index.memories.
LinkLoop(memories, sourceId, targetId, relType) ==
    [i \in 1..Len(memories) |->
        LET m1 == IF memories[i].id = sourceId
                  THEN addRelation(memories[i], targetId, relType)
                  ELSE memories[i]
        IN IF m1.id = targetId
           THEN addRelation(m1, sourceId, INVERSE_RELATION(relType))
           ELSE m1]

\* The sides memory_v2_link reports as not found.
LinkNotFound(memories, sourceId, targetId) ==
    {side \in {"source", "target"} :
        ~\E i \in 1..Len(memories) :
            memories[i].id = (IF side = "source" THEN sourceId ELSE targetId)}

LinkCommits_UnlessBothMissing(notFound) == notFound # {"source", "target"}

\* Whether memory_v2_link goes on to saveIndex.
LinkCommits(notFound) == notFound = {}

\* memory_v2_link.execute
LinkExecute(sourceId, targetId, relationType) ==
    /\ LET index == loadIndex(files[plugin.indexPath])
           linked == [index EXCEPT
                        !.memories = LinkLoop(@, sourceId, targetId, relationType)]
           notFound == LinkNotFound(index.memories, sourceId, targetId)
       IN /\ files' = IF LinkCommits(notFound)
                      THEN [files EXCEPT ![plugin.indexPath] = saveIndex(linked)]
                      ELSE files
          /\ last' = [NoLast EXCEPT !.op = "link", !.error = notFound,
                                    !.sourceId = sourceId, !.targetId = targetId,
                                    !.relType = relationType]
    /\ now' = now + 1
    /\ UNCHANGED <<plugin, embedder, callers, embedRun, relay>>

\* A call of memory_v2_link while no other call is suspended.
LinkTool(sourceId, targetId, relationType) ==
    /\ plugin.registered /\ CanCall
    /\ LinkExecute(sourceId, targetId, relationType)

\* The test of the migration loop as it would be without Array.isArray.
IsLegacyEmbedding_AnyEmbedding(memory) == HasEmbedding(memory)

\* memory.embedding && Array.isArray(memory.embedding)
IsLegacyEmbedding(memory) == memory.embedding.form = "array"

\* memory_v2_migrate.execute
MigrateTool ==
    /\ plugin.registered /\ CanCall
    /\ LET index == loadIndex(files[plugin.indexPath])
           isArray(m) == IsLegacyEmbedding(m)
           isString(m) == /\ ~IsLegacyEmbedding(m)
                          /\ m.embedding.form = "b64" /\ m.embedding.vec # <<>>
           converted == [index EXCEPT
                           !.version = "3.0",
                           !.memories = [i \in 1..Len(index.memories) |->
                               IF isArray(index.memories[i])
                               THEN [index.memories[i] EXCEPT
                                       !.embedding = encodeEmbedding(@.vec)]
                               ELSE index.memories[i]]]
       IN /\ files' = [files EXCEPT ![plugin.indexPath] = saveIndex(converted)]
          /\ last' = [NoLast EXCEPT
                        !.op = "migrate",
                        !.migrated = Cardinality({i \in 1..Len(index.memories) :
                                                    isArray(index.memories[i])}),
                        !.alreadyBinary = Cardinality({i \in 1..Len(index.memories) :
                                                    isString(index.memories[i])})]
    /\ now' = now + 1
    /\ UNCHANGED <<plugin, embedder, callers, embedRun, relay>>

\* memory_v2_stats.execute
StatsTool ==
    /\ plugin.registered /\ CanCall
    /\ LET index == loadIndex(files[plugin.indexPath])
       IN last' = [NoLast EXCEPT
                     !.op = "stats",
                     !.total = Len(index.memories),
                     !.embedded = Cardinality({i \in 1..Len(index.memories) :
                                                 HasEmbedding(index.memories[i])})]
    /\ now' = now + 1
    /\ UNCHANGED <<files, plugin, embedder, callers, embedRun, relay>>

\* appendEntry(indexPath, entry), called by the code that creates entries.
AppendExecute(entry) ==
    /\ files' = [files EXCEPT ![plugin.indexPath] = appendEntry(@, entry)]
    /\ last' = [NoLast EXCEPT !.op = "append", !.appended = entry.id, !.arg = entry]
    /\ now' = now + 1
    /\ UNCHANGED <<plugin, embedder, callers, embedRun, relay>>

\* A call of appendEntry while no tool call is suspended.
AppendEntry(entry) ==
    /\ plugin.registered /\ CanCall
    /\ AppendExecute(entry)

(***************************************************************************)
(* memory_v2_embed.execute runs from one await to the next.                *)
(***************************************************************************)
\* The break as it would be if the test were embedded > limit.
EmbedLimitReached_Above(embedded, limit) == embedded > limit

\* if (embedded >= limit) break
EmbedLimitReached(embedded, limit) == embedded >= limit

\* The embed loop from entry run.i up to the next await or its end.
RECURSIVE EmbedAdvance(_)
EmbedAdvance(run) ==
    IF run.i > Len(run.index.memories) \/ EmbedLimitReached(run.embedded, run.limit)
    THEN [run EXCEPT !.pc = "finish"]
    ELSE IF HasEmbedding(run.index.memories[run.i]) /\ ~run.force
    THEN EmbedAdvance([run EXCEPT !.skipped = @ + 1, !.i = @ + 1])
    ELSE [run EXCEPT !.pc = "await"]

\* The auto-link loop of memory_v2_embed over index.memories from entry i on:
\* the array is read at each step, after the copy back of the step before.
RECURSIVE AutoLinkAll(_, _)
AutoLinkAll(memories, i) ==
    IF i > Len(memories) THEN memories
    ELSE IF memories[i].relations = <<>>
    THEN AutoLinkAll(autoLinkNewEntry(memories[i], memories, 65), i + 1)
    ELSE AutoLinkAll(memories, i + 1)

\* `linked`: the entries whose own object has more relations after its pass
\* than before; autoLinkNewEntry never changes that object.
RECURSIVE AutoLinkCount(_, _)
AutoLinkCount(memories, i) ==
    IF i > Len(memories) THEN 0
    ELSE IF memories[i].relations = <<>>
    THEN LET memory == memories[i]
             before == Len(memory.relations)
             after == Len(memory.relations)
         IN (IF after > before THEN 1 ELSE 0)
            + AutoLinkCount(autoLinkNewEntry(memory, memories, 65), i + 1)
    ELSE AutoLinkCount(memories, i + 1)

\* The index memory_v2_embed saves when it embedded something.
EmbedLinked(index) ==
    [index EXCEPT !.memories = AutoLinkAll(@, 1), !.embeddingModel = ModelName]

\* The rest of memory_v2_embed after the loop, or the suspension at the await.
EmbedContinue(run) ==
    IF run.pc = "finish"
    THEN /\ files' = IF run.embedded > 0
                     THEN [files EXCEPT ![plugin.indexPath] = saveIndex(EmbedLinked(run.index))]
                     ELSE files
         /\ last' = [NoLast EXCEPT
                       !.op = "embed", !.limit = run.limit, !.force = run.force,
                       !.embedded = run.embedded,
                       !.skipped = run.skipped, !.failed = run.failed,
                       !.linked = IF run.embedded > 0
                                  THEN AutoLinkCount(run.index.memories, 1) ELSE 0]
         /\ embedRun' = EmbedIdle
         /\ now' = now + 1
    ELSE /\ embedRun' = run
         /\ UNCHANGED <<files, last, now>>

\* memory_v2_embed.execute up to its first await on embedder.embed.
EmbedTool(limit, force) ==
    /\ plugin.registered /\ CanCall /\ EmbedderSettled
    /\ IF plugin.provider # "local"
       THEN /\ last' = [NoLast EXCEPT !.op = "embed", !.error = {"not configured"}]
            /\ now' = now + 1
            /\ UNCHANGED <<files, embedRun>>
       ELSE IF ~embedder.pipeline
       THEN /\ last' = [NoLast EXCEPT !.op = "embed", !.error = {"failed to load"}]
            /\ now' = now + 1
            /\ UNCHANGED <<files, embedRun>>
       ELSE EmbedContinue(EmbedAdvance(
                [EmbedIdle EXCEPT !.pc = "loop",
                                  !.index = loadIndex(files[plugin.indexPath]),
                                  !.i = 1, !.limit = limit, !.force = force]))
    /\ UNCHANGED <<plugin, embedder, callers, relay>>

\* embedder.embed(memory.content) resolves to a vector or to null (<<>>).
EmbedResume(embedding) ==
    /\ embedRun.pc = "await"
    /\ LET run == embedRun
           got == IF embedding # <<>>
                  THEN [run EXCEPT
                          !.index.memories[run.i].embedding =
                              [form |-> "array", vec |-> embedding[1]],
                          !.embedded = @ + 1, !.i = @ + 1]
                  ELSE [run EXCEPT !.failed = @ + 1, !.i = @ + 1]
       IN EmbedContinue(EmbedAdvance(got))
    /\ UNCHANGED <<plugin, embedder, callers, relay>>

(***************************************************************************)
(* Entries and files the behaviours start from and the inputs of the       *)
(* calls.                                                                  *)
(***************************************************************************)
M1 == [EmptyObject EXCEPT
         !.id = "m1", !.timestamp = 395, !.type = "learning", !.importance = 7,
         !.content = "calendar api enabled and tested",
         !.tags = <<"calendar", "api">>, !.file = "notes.md", !.line = 10]

M2 == [EmptyObject EXCEPT
         !.id = "m2", !.timestamp = 396, !.date = 396, !.type = "event",
         !.importance = 6, !.content = "entry without tags and line",
         !.tags = <<"tags">>, !.file = "notes.md", !.line = 11]

M3 == [EmptyObject EXCEPT
         !.id = "m3", !.timestamp = 30, !.date = 30, !.type = "decision",
         !.importance = 8, !.content = "swtpa focus block moved to work calendar",
         !.tags = <<"calendar">>, !.file = "daily/2026-02-11.md", !.line = 42]

\* The entries of the regression test: m1 without file, m2 without tags,
\* line and file; and m2 without tags and line only.
M1NoFile == [M1 EXCEPT !.file = UNDEF]
M2NoTags == [M2 EXCEPT !.tags = NOTAGS, !.line = UNDEFN, !.file = UNDEF, !.date = UNDEFN]
M2NoTagsLine == [M2 EXCEPT !.tags = NOTAGS, !.line = UNDEFN]

\* Entries with an embedding, in the legacy array form (doubles) and in the
\* compact form, with access tracking and with relations.
M1Array == [M1 EXCEPT !.embedding = [form |-> "array", vec |-> <<31, 40>>],
                      !.accessCount = 2, !.lastAccessed = 399]
M2Binary == [M2 EXCEPT !.embedding = encodeEmbedding(<<30, 40>>)]
M1Linked == [M1 EXCEPT !.relations = <<[id |-> "m3", type |-> "related"]>>]
M3Linked == [M3 EXCEPT !.relations = <<[id |-> "m1", type |-> "related"]>>]

M4 == [EmptyObject EXCEPT
         !.id = "m4", !.timestamp = BADTS, !.type = "insight", !.importance = 5,
         !.content = "calendar", !.tags = <<>>, !.file = "notes.md", !.line = 1]

Meta == MetaLine("3.0", 399, ModelName)

Jsonl(entries) == File(<<Meta>> \o [i \in 1..Len(entries) |-> EntryLine(entries[i])], TRUE)

InitIndexFiles ==
    {NoFile,
     File(<<>>, FALSE),
     Jsonl(<<M1, M2, M3>>),
     Jsonl(<<M1NoFile, M2NoTags>>),
     Jsonl(<<M1NoFile, M2, M3>>),
     Jsonl(<<M1, M2NoTagsLine, M3>>),
     Jsonl(<<M1Array, M2Binary, M3>>),
     Jsonl(<<M1Linked, M2, M3Linked>>),
     File(<<Meta, EntryLine(M1), BadLine, BlankLine, EntryLine(M3)>>, FALSE),
     File(<<LegacyBlob("2.0", 390, UNDEF,
                       <<[M1 EXCEPT !.tags = <<>>], [M3 EXCEPT !.tags = <<>>]>>, TRUE)>>,
          FALSE)}

InitLegacyFiles ==
    {NoFile,
     File(<<>>, FALSE),
     File(<<LegacyBlob("2.0", 390, ModelName, <<M3, M1Array>>, TRUE)>>, FALSE),
     File(<<LegacyBlob("2.0", 390, UNDEF, <<M2NoTags, M1>>, FALSE)>>, TRUE),
     File(<<BadLine>>, TRUE)}

Ids == {"m1", "m3", "ghost"}

Queries == {<<>>, <<"a">>, <<"calendar", "api">>, <<"tags", "zzz">>}

DefaultMinScore == SCALE \div 10

\* A file system: the legacy file, the line-oriented sibling, nothing else.
FileSystem(legacy, index) ==
    [s \in Suffixes |->
        IF s = "json" THEN legacy ELSE IF s = "jsonl" THEN index ELSE NoFile]

\* Every index file without a legacy file beside it, and every legacy file
\* beside no sibling, an empty one and one that holds entries.
InitFileSystems ==
    {FileSystem(NoFile, l) : l \in InitIndexFiles}
    \cup {FileSystem(j, l) : j \in InitLegacyFiles,
                             l \in {NoFile, File(<<>>, FALSE), Jsonl(<<M1, M2, M3>>)}}

Init ==
    /\ files \in InitFileSystems
    /\ now = StartDay
    /\ plugin = Unregistered
    /\ embedder = NoEmbedder
    /\ callers = <<>>
    /\ embedRun = EmbedIdle
    /\ last = NoLast
    /\ relay = NoRelay

Next ==
    \/ \E c \in Suffixes, p \in {"none", "local"} : Register(c, p)
    \/ \E ok \in BOOLEAN : LoadSettles(ok)
    \/ \E q \in Queries, k \in {1, 10}, e \in {<<>>, <<<<30, 40>>>>} :
          SearchTool(q, k, DefaultMinScore, e)
    \/ \E a, b \in Ids, t \in {"caused", "related"} : LinkTool(a, b, t)
    \/ MigrateTool
    \/ StatsTool
    \/ \E e \in {M4, M2NoTags} : AppendEntry(e)
    \/ \E limit \in {1, 100}, force \in BOOLEAN : EmbedTool(limit, force)
    \/ \E v \in {<<>>} \cup {<<x>> : x \in PipelineVectors} : EmbedResume(v)

Spec == Init /\ [][Next]_vars

(***************************************************************************)
(* One NodeEmbedder and its concurrent callers.                            *)
(***************************************************************************)
EmbedderInit ==
    /\ files = [s \in Suffixes |-> NoFile]
    /\ now = StartDay
    /\ plugin = [Unregistered EXCEPT !.provider = "local"]
    /\ embedder = NoEmbedder
    /\ callers = [c \in 1..MaxCallers |-> IdleCaller]
    /\ embedRun = EmbedIdle
    /\ last = NoLast
    /\ relay = NoRelay

EmbedderNext ==
    \/ \E c \in 1..MaxCallers : CallInitialize(c)
    \/ \E c \in 1..MaxCallers : CallEmbed(c)
    \/ \E c \in 1..MaxCallers : InitializeResumes(c)
    \/ \E c \in 1..MaxCallers, ok \in BOOLEAN : PipelineResolves(c, ok)
    \/ \E ok \in BOOLEAN : LoadSettles(ok)

SpecEmbedder == EmbedderInit /\ [][EmbedderNext]_vars

(***************************************************************************)
(* The relation graph: the plugin registered on a line-oriented index,     *)
(* links of every type between entries that exist or not, and searches.    *)
(***************************************************************************)
\* Entries whose file has "daily/" inside but not in front, is "daily" without
\* the slash, or is the prefix alone.
M1Memory == [M1 EXCEPT !.file = "memory/daily/2026-02-11.md"]
M2Daily == [M2 EXCEPT !.file = "daily"]
M4Daily == [M4 EXCEPT !.timestamp = 397, !.file = "daily/"]

GraphInit ==
    /\ files \in {FileSystem(NoFile, l) :
                     l \in {NoFile, Jsonl(<<M1, M2, M3>>), Jsonl(<<M1Linked, M2, M3Linked>>),
                            Jsonl(<<M1Memory, M2Daily, M3, M4Daily>>)}}
    /\ now = StartDay
    /\ plugin = [registered |-> TRUE, configPath |-> "jsonl",
                 indexPath |-> ResolvePaths("jsonl").indexPath, provider |-> "none"]
    /\ embedder = NoEmbedder
    /\ callers = <<>>
    /\ embedRun = EmbedIdle
    /\ last = NoLast
    /\ relay = NoRelay

GraphNext ==
    \/ \E a, b \in Ids, t \in MemoryRelationType : LinkTool(a, b, t)
    \/ \E q \in {<<"calendar", "api">>}, k \in {1, 10} :
          SearchTool(q, k, DefaultMinScore, <<>>)

SpecGraph == GraphInit /\ [][GraphNext]_vars

(***************************************************************************)
(* The binary migration: the plugin registered on an index whose entries   *)
(* have embeddings in the legacy form, the compact form or none; the       *)
(* migration runs between appends, links, statistics and loads of the      *)
(* index path and of paths where no file is.                               *)
(***************************************************************************)
\* loadIndex(path), called on any path.
CallLoadIndex(path) ==
    /\ CanCall
    /\ last' = [NoLast EXCEPT !.op = "loadIndex", !.path = path,
                              !.loaded = <<loadIndex(files[path])>>]
    /\ now' = now + 1
    /\ UNCHANGED <<files, plugin, embedder, callers, embedRun, relay>>

M4Array == [M4 EXCEPT !.timestamp = 398, !.embedding = [form |-> "array", vec |-> <<49, 0>>]]

MigrateIndexFiles ==
    {NoFile,
     Jsonl(<<M1, M2, M3>>),
     Jsonl(<<M1Array, M2Binary, M3>>),
     Jsonl(<<M2Binary, [M3 EXCEPT !.embedding = encodeEmbedding(<<50, 0>>)]>>),
     Jsonl(<<[M1 EXCEPT !.embedding = [form |-> "array", vec |-> <<0 - 31, 655364, 7>>]],
             [M3 EXCEPT !.embedding = [form |-> "array", vec |-> <<2554>>]]>>),
     File(<<EntryLine(M1Array), EntryLine([M3 EXCEPT !.embedding =
                                             [form |-> "array", vec |-> <<>>]])>>,
          FALSE)}

MigrateInit ==
    /\ files \in {FileSystem(NoFile, l) : l \in MigrateIndexFiles}
    /\ now = StartDay
    /\ plugin = [registered |-> TRUE, configPath |-> "jsonl",
                 indexPath |-> ResolvePaths("jsonl").indexPath, provider |-> "none"]
    /\ embedder = NoEmbedder
    /\ callers = <<>>
    /\ embedRun = EmbedIdle
    /\ last = NoLast
    /\ relay = NoRelay

MigrateNext ==
    \/ MigrateTool
    \/ StatsTool
    \/ \E e \in {M4, M4Array} : AppendEntry(e)
    \/ \E a, b \in {"m1", "m2"} : LinkTool(a, b, "elaborates")
    \/ \E path \in Suffixes : CallLoadIndex(path)

SpecMigrate == MigrateInit /\ [][MigrateNext]_vars

(***************************************************************************)
(* The auto-linker: the plugin registered with a loaded embedding model on *)
(* an index of entries with embeddings close to and far from each other    *)
(* and entries still without one, and runs of memory_v2_embed.             *)
(***************************************************************************)
Embedded(id, vec) == [M2 EXCEPT !.id = id, !.embedding = encodeEmbedding(vec)]

NotEmbedded(id) == [M2 EXCEPT !.id = id]

AutoLinkIndexFiles ==
    {Jsonl(<<Embedded("a", <<30, 40>>), Embedded("b", <<40, 30>>),
             Embedded("c", <<0, 50>>), Embedded("d", <<30, 40>>),
             Embedded("e", <<50, 0>>), NotEmbedded("n1"), NotEmbedded("n2")>>),
     Jsonl(<<NotEmbedded("n1"),
             [Embedded("a", <<30, 40>>) EXCEPT
                 !.relations = <<[id |-> "n1", type |-> "related"]>>],
             Embedded("b", <<40, 30>>), Embedded("c", <<0, 50>>),
             Embedded("d", <<50, 0>>), Embedded("e", <<30, 40>>)>>),
     Jsonl(<<M1, M2, M3>>)}

AutoLinkInit ==
    /\ files \in {FileSystem(NoFile, l) : l \in AutoLinkIndexFiles}
    /\ now = StartDay
    /\ plugin = [registered |-> TRUE, configPath |-> "jsonl",
                 indexPath |-> ResolvePaths("jsonl").indexPath, provider |-> "local"]
    /\ embedder = [pipeline |-> TRUE, loading |-> "settled", loads |-> 1]
    /\ callers = <<>>
    /\ embedRun = EmbedIdle
    /\ last = NoLast
    /\ relay = NoRelay

AutoLinkNext ==
    \/ \E limit \in {1, 100} : EmbedTool(limit, FALSE)
    \/ EmbedTool(1, TRUE)
    \/ \E v \in {<<>>} \cup {<<x>> : x \in PipelineVectors} : EmbedResume(v)

SpecAutoLink == AutoLinkInit /\ [][AutoLinkNext]_vars

(***************************************************************************)
(* Relations: the plugin registered with a loaded embedding model on an    *)
(* index whose entries are linked or not, manual links and runs of         *)
(* memory_v2_embed that auto-link entries, some of them linked already.    *)
(***************************************************************************)
RelationsIndexFiles ==
    {Jsonl(<<[NotEmbedded("n1") EXCEPT !.relations = <<[id |-> "a", type |-> "related"]>>],
             [Embedded("a", <<30, 40>>) EXCEPT
                 !.relations = <<[id |-> "n1", type |-> "related"]>>],
             Embedded("b", <<40, 30>>)>>),
     Jsonl(<<NotEmbedded("n1"), Embedded("a", <<30, 40>>)>>)}

RelationsInit ==
    /\ files \in {FileSystem(NoFile, l) : l \in RelationsIndexFiles}
    /\ now = StartDay
    /\ plugin = [registered |-> TRUE, configPath |-> "jsonl",
                 indexPath |-> ResolvePaths("jsonl").indexPath, provider |-> "local"]
    /\ embedder = [pipeline |-> TRUE, loading |-> "settled", loads |-> 1]
    /\ callers = <<>>
    /\ embedRun = EmbedIdle
    /\ last = NoLast
    /\ relay = NoRelay

RelationsNext ==
    \/ \E a, b \in {"n1", "a", "ghost"}, t \in {"related", "caused"} : LinkTool(a, b, t)
    \/ \E force \in BOOLEAN : EmbedTool(100, force)
    \/ \E v \in {<<>>} \cup {<<x>> : x \in PipelineVectors} : EmbedResume(v)

SpecRelations == RelationsInit /\ [][RelationsNext]_vars

(***************************************************************************)
(* Graph expansion: searchWithGraph called on the entries of an index      *)
(* whose relations point at other results, at the entry itself, twice at   *)
(* one entry, at entries further away and at ids no entry has, with any    *)
(* choice of top-level results and any depth; and memory_v2_search on the  *)
(* same indexes.                                                           *)
(***************************************************************************)
Node(id, targets) ==
    [NotEmbedded(id) EXCEPT
        !.relations = [k \in 1..Len(targets) |->
                          [id |-> targets[k][1], type |-> targets[k][2]]]]

ExpandIndexFiles ==
    {Jsonl(<<Node("a", <<<<"b", "related">>, <<"b", "caused">>, <<"ghost", "related">>,
                          <<"a", "related">>, <<"c", "related">>>>),
             Node("b", <<<<"a", "related">>, <<"a", "caused_by">>, <<"d", "related">>>>),
             Node("c", <<<<"a", "related">>>>),
             Node("d", <<<<"b", "related">>, <<"ghost", "caused">>>>)>>),
     Jsonl(<<Node("a", <<<<"b", "related">>>>), Node("b", <<<<"c", "related">>>>),
             Node("c", <<<<"d", "related">>>>), Node("d", <<>>)>>),
     Jsonl(<<Node("a", <<>>), Node("b", <<>>)>>)}

\* The ids of the top-level results handed to searchWithGraph, best first.
ExpandResultIds ==
    {<<>>, <<"a">>, <<"b">>, <<"a", "c">>, <<"d", "a">>, <<"a", "b", "c", "d">>}

ExpandDepths == {0, 1, 2}

\* searchWithGraph(allMemories, results, depth), the results being entries
\* of a load of the index, as searchMemories returns them.
CallSearchWithGraph(ids, depth) ==
    /\ plugin.registered /\ CanCall
    /\ LET index == loadIndex(files[plugin.indexPath])
           results == [i \in 1..Len(ids) |->
                         [entry |-> MemoryById(index.memories, ids[i])[1], score |-> 0]]
       IN /\ \A i \in 1..Len(ids) : MemoryById(index.memories, ids[i]) # <<>>
          /\ last' = [NoLast EXCEPT !.op = "searchWithGraph", !.arg = depth,
                                    !.loaded = index.memories,
                                    !.value = searchWithGraph(index.memories, results,
                                                              depth)]
    /\ now' = now + 1
    /\ UNCHANGED <<files, plugin, embedder, callers, embedRun, relay>>

ExpandInit ==
    /\ files \in {FileSystem(NoFile, l) : l \in ExpandIndexFiles}
    /\ now = StartDay
    /\ plugin = [registered |-> TRUE, configPath |-> "jsonl",
                 indexPath |-> ResolvePaths("jsonl").indexPath, provider |-> "none"]
    /\ embedder = NoEmbedder
    /\ callers = <<>>
    /\ embedRun = EmbedIdle
    /\ last = NoLast
    /\ relay = NoRelay

ExpandNext ==
    \/ \E ids \in ExpandResultIds, depth \in ExpandDepths : CallSearchWithGraph(ids, depth)
    \/ \E k \in {1, 2, 10} : SearchTool(<<"tags">>, k, DefaultMinScore, <<>>)

SpecExpand == ExpandInit /\ [][ExpandNext]_vars

(***************************************************************************)
(* The ranker alone: searchMemories called on an index file with any       *)
(* query, limit, threshold and query vector.                               *)
(***************************************************************************)
\* What a caller sees of the array searchMemories returns.
Ranked(results) ==
    [i \in 1..Len(results) |->
        [id |-> results[i].entry.id, score |-> results[i].score,
         keywordScore |-> results[i].keywordScore,
         semanticScore |-> results[i].semanticScore]]

\* searchMemories(indexPath, query, maxResults, minScore, queryEmbedding)
CallSearchMemories(query, maxResults, minScore, queryEmbedding) ==
    /\ plugin.registered /\ CanCall
    /\ LET index == loadIndex(files[plugin.indexPath])
           called == [NoLast EXCEPT !.op = "searchMemories", !.query = query,
                                    !.maxResults = maxResults, !.minScore = minScore,
                                    !.queryEmbedding = queryEmbedding]
       IN last' = IF searchMemoriesThrows(index, query)
                  THEN [called EXCEPT !.threw = TRUE]
                  ELSE [called EXCEPT !.ranked =
                          Ranked(searchMemories(index, query, maxResults, minScore,
                                                queryEmbedding))]
    /\ now' = now + 1
    /\ UNCHANGED <<files, plugin, embedder, callers, embedRun, relay>>

\* An entry that scores as m1 does, and one whose timestamp is no date.
M1Tie == [M1 EXCEPT !.id = "m5"]
M3BadTimestamp == [M3 EXCEPT !.timestamp = BADTS]

SearchIndexFiles ==
    {NoFile,
     Jsonl(<<M1, M2, M3>>),
     Jsonl(<<M2, M1, M1Tie, M3>>),
     Jsonl(<<M3, M1Tie, M2, M1>>),
     Jsonl(<<M1Array, M2Binary, M3>>),
     Jsonl(<<M1, M2NoTagsLine, M3>>),
     Jsonl(<<M1, M3BadTimestamp, M2>>)}

\* The queries of the tools, and those that split into empty tokens only
\* ("" and " ") or into a one-character token and an empty one ("a ").
SearchQueries == Queries \cup {<<"">>, <<"", "">>, <<"a", "">>}

MaxResultsValues == {0 - 1, 0, 1, 2, 10}

MinScoreValues == {0, DefaultMinScore, SCALE \div 2}

SearchInit ==
    /\ files \in {FileSystem(NoFile, l) : l \in SearchIndexFiles}
    /\ now = StartDay
    /\ plugin = [registered |-> TRUE, configPath |-> "jsonl",
                 indexPath |-> ResolvePaths("jsonl").indexPath, provider |-> "none"]
    /\ embedder = NoEmbedder
    /\ callers = <<>>
    /\ embedRun = EmbedIdle
    /\ last = NoLast
    /\ relay = NoRelay

\* The query vectors: none, one of the length of the entries' vectors, and
\* (with the widest limit and the lowest threshold) one that is longer.
SearchNext ==
    \/ \E q \in SearchQueries, k \in MaxResultsValues, ms \in MinScoreValues,
          e \in {<<>>, <<<<30, 40>>>>} : CallSearchMemories(q, k, ms, e)
    \/ \E q \in {<<>>, <<"calendar", "api">>} :
          CallSearchMemories(q, 10, 0, <<<<30, 40, 0>>>>)

SpecSearch == SearchInit /\ [][SearchNext]_vars

(***************************************************************************)
(* The scoring functions alone: scoreKeywordMatch and effectiveImportance  *)
(* called on entries of any importance, age and access count.  A call of   *)
(* effectiveImportance that follows another keeps that one in `prev`.      *)
(***************************************************************************)
\* scoreKeywordMatch(entry, queryTerms)
CallScoreKeywordMatch(entry, queryTerms) ==
    /\ CanCall
    /\ last' = [NoLast EXCEPT
                  !.op = "scoreKeywordMatch", !.arg = entry, !.query = queryTerms,
                  !.at = now, !.threw = KeywordThrows(entry),
                  !.value = IF KeywordThrows(entry) THEN 0
                            ELSE scoreKeywordMatch(entry, queryTerms)]
    /\ now' = now + 1
    /\ UNCHANGED <<files, plugin, embedder, callers, embedRun, relay>>

\* effectiveImportance(entry), Date.now() being `now`.
CallEffectiveImportance(entry) ==
    /\ CanCall
    /\ last' = [NoLast EXCEPT
                  !.op = "effectiveImportance", !.arg = entry, !.at = now,
                  !.value = effectiveImportance(entry),
                  !.prev = IF last.op = "effectiveImportance"
                           THEN <<[arg |-> last.arg, at |-> last.at,
                                   value |-> last.value]>>
                           ELSE <<>>]
    /\ now' = now + 1
    /\ UNCHANGED <<files, plugin, embedder, callers, embedRun, relay>>

\* An entry whose content, tag and type all hold the term "event".
MEvent == [EmptyObject EXCEPT
             !.id = "m6", !.timestamp = 399, !.type = "event", !.importance = 10,
             !.content = "event", !.tags = <<"event">>, !.file = "notes.md",
             !.line = 3]

\* importance: the ends and the middle of the data model's range 1..10.
ImportanceValues == {1, 7, 10}

\* timestamp, in days: more than a year before StartDay, within the year,
\* the days the calls are made on, and days after them.
TimestampValues ==
    {0, StartDay - 100, StartDay - 1, StartDay, StartDay + 1, StartDay + 100,
     StartDay + 400}

\* accessCount: absent, and below, at and above the cap of the boost.
AccessCountValues == {UNDEFN, 0, 5, 10, 15}

TermLists ==
    {<<>>, <<"a">>, <<"event">>, <<"zzz">>, <<"calendar", "api">>,
     <<"tags", "zzz">>, <<"calendar", "api", "zzz">>}

ScoreInit ==
    /\ files = [s \in Suffixes |-> NoFile]
    /\ now = StartDay
    /\ plugin = Unregistered
    /\ embedder = NoEmbedder
    /\ callers = <<>>
    /\ embedRun = EmbedIdle
    /\ last = NoLast
    /\ relay = NoRelay

ScoreNext ==
    \/ \E m \in {M1, M2, M3, MEvent}, imp \in ImportanceValues, terms \in TermLists :
          CallScoreKeywordMatch([m EXCEPT !.importance = imp], terms)
    \/ \E imp \in ImportanceValues, ts \in TimestampValues, ac \in AccessCountValues :
          CallEffectiveImportance([M1 EXCEPT !.importance = imp, !.timestamp = ts,
                                             !.accessCount = ac])

SpecScore == ScoreInit /\ [][ScoreNext]_vars

(***************************************************************************)
(* The store: loadIndex, saveIndex and appendEntry on one path that holds  *)
(* no file, an empty file, a line-delimited index with malformed and blank *)
(* lines, or a legacy whole-file index.                                    *)
(***************************************************************************)
\* saveIndex(indexPath, index), called with any index.
CallSaveIndex(path, index) ==
    /\ CanCall
    /\ files' = [files EXCEPT ![path] = saveIndex(index)]
    /\ last' = [NoLast EXCEPT !.op = "saveIndex", !.path = path, !.saved = <<index>>]
    /\ now' = now + 1
    /\ UNCHANGED <<plugin, embedder, callers, embedRun, relay>>

M3NoTags == [M3 EXCEPT !.tags = <<>>]

StoreIndexFiles ==
    {NoFile,
     File(<<>>, FALSE),
     File(<<>>, TRUE),
     Jsonl(<<M1, M2, M3>>),
     File(<<Meta, EntryLine(M1), BadLine, BlankLine, EntryLine(M3)>>, FALSE),
     File(<<EntryLine(M2NoTags), BadLine, MetaLine("2.9", 380, UNDEF),
            EntryLine(M1Array)>>, TRUE),
     File(<<BadLine, BlankLine>>, TRUE),
     File(<<LegacyBlob("2.0", 390, ModelName, <<M2NoTags, M3NoTags>>, TRUE)>>, FALSE),
     File(<<LegacyBlob("2.0", 390, UNDEF, <<M3, M1Array>>, TRUE)>>, FALSE),
     File(<<LegacyBlob(UNDEF, UNDEFN, UNDEF, <<M2NoTags, M1>>, FALSE)>>, TRUE)}

\* The indexes handed to saveIndex: built in memory, or the loaded one.
StoreIndexes ==
    {[version |-> "3.0", lastUpdated |-> 399, embeddingModel |-> em, memories |-> ms] :
        em \in {ModelName}, ms \in {<<>>, <<M3, M1Array>>, <<M2NoTags, M4, M1>>}}

StoreInit ==
    /\ files \in {FileSystem(NoFile, l) : l \in StoreIndexFiles}
    /\ now = StartDay
    /\ plugin = [registered |-> TRUE, configPath |-> "jsonl",
                 indexPath |-> ResolvePaths("jsonl").indexPath, provider |-> "none"]
    /\ embedder = NoEmbedder
    /\ callers = <<>>
    /\ embedRun = EmbedIdle
    /\ last = NoLast
    /\ relay = NoRelay

StoreNext ==
    \/ CallLoadIndex(plugin.indexPath)
    \/ \E index \in StoreIndexes : CallSaveIndex(plugin.indexPath, index)
    \/ CallSaveIndex(plugin.indexPath, loadIndex(files[plugin.indexPath]))
    \/ \E e \in {M4, M4Array, M2NoTags} : AppendEntry(e)

SpecStore == StoreInit /\ [][StoreNext]_vars

(***************************************************************************)
(* Every operation on one index: the plugin registered with a loaded       *)
(* embedding model on an index whose entries have a date that is or is not *)
(* the day of their timestamp or have none, and an embedding in the legacy *)
(* form, in the compact form or none; loads, saves, appends, searches,     *)
(* links, migrations and runs of memory_v2_embed with any limit.           *)
(***************************************************************************)
Entry(id, timestamp, date, embedding) ==
    [M2 EXCEPT !.id = id, !.timestamp = timestamp, !.date = date,
               !.embedding = embedding]

ToolsIndexFiles ==
    {NoFile,
     Jsonl(<<Entry("a", 395, 100, [form |-> "array", vec |-> <<30, 40>>]),
             Entry("b", 396, UNDEFN, encodeEmbedding(<<30, 40>>)),
             Entry("n1", BADTS, UNDEFN, NoEmbedding)>>),
     Jsonl(<<Entry("a", 395, UNDEFN, encodeEmbedding(<<40, 30>>)),
             Entry("b", BADTS, 396, [form |-> "array", vec |-> <<50, 0>>])>>)}

\* The entries handed to appendEntry.
ToolsAppended ==
    {Entry("m4", 398, 200, [form |-> "array", vec |-> <<50, 0>>]),
     Entry("m5", BADTS, UNDEFN, NoEmbedding)}

\* The values of the parameter limit of memory_v2_embed.
EmbedLimits == {0 - 1, 0, 1, 100}

ToolsInit ==
    /\ files \in {FileSystem(NoFile, l) : l \in ToolsIndexFiles}
    /\ now = StartDay
    /\ plugin = [registered |-> TRUE, configPath |-> "jsonl",
                 indexPath |-> ResolvePaths("jsonl").indexPath, provider |-> "local"]
    /\ embedder = [pipeline |-> TRUE, loading |-> "settled", loads |-> 1]
    /\ callers = <<>>
    /\ embedRun = EmbedIdle
    /\ last = NoLast
    /\ relay = NoRelay

ToolsNext ==
    \/ CallLoadIndex(plugin.indexPath)
    \/ CallSaveIndex(plugin.indexPath, loadIndex(files[plugin.indexPath]))
    \/ \E e \in ToolsAppended : AppendEntry(e)
    \/ \E qe \in {<<>>, <<<<30, 40>>>>} : SearchTool(<<"tags">>, 10, DefaultMinScore, qe)
    \/ \E y \in {"b", "ghost"} : LinkTool("a", y, "caused")
    \/ MigrateTool
    \/ \E limit \in EmbedLimits : EmbedTool(limit, FALSE)
    \/ EmbedTool(100, TRUE)
    \/ \E v \in {<<>>, <<<<50, 0>>>>} : EmbedResume(v)

SpecTools == ToolsInit /\ [][ToolsNext]_vars

(***************************************************************************)
(* Calls during a run of memory_v2_embed: while the run is suspended at    *)
(* its await on embedder.embed, the host runs memory_v2_link,              *)
(* memory_v2_search and appendEntry on the same index to their end.        *)
(***************************************************************************)
\* memory_v2_embed is suspended and a further call may be made.
WhileSuspended == embedRun.pc = "await" /\ now < StartDay + MaxOps

LinkDuringEmbed(sourceId, targetId, relationType) ==
    /\ plugin.registered /\ WhileSuspended
    /\ LinkExecute(sourceId, targetId, relationType)

AppendDuringEmbed(entry) ==
    /\ plugin.registered /\ WhileSuspended
    /\ AppendExecute(entry)

SearchDuringEmbed(query, maxResults, minScore, queryEmbedding) ==
    /\ plugin.registered /\ WhileSuspended
    /\ SearchExecute(query, maxResults, minScore, queryEmbedding)

ConcurrentIndexFiles ==
    {Jsonl(<<NotEmbedded("n1"), Embedded("a", <<30, 40>>), NotEmbedded("n2")>>),
     Jsonl(<<Embedded("a", <<30, 40>>), NotEmbedded("n1")>>)}

ConcurrentInit ==
    /\ files \in {FileSystem(NoFile, l) : l \in ConcurrentIndexFiles}
    /\ now = StartDay
    /\ plugin = [registered |-> TRUE, configPath |-> "jsonl",
                 indexPath |-> ResolvePaths("jsonl").indexPath, provider |-> "local"]
    /\ embedder = [pipeline |-> TRUE, loading |-> "settled", loads |-> 1]
    /\ callers = <<>>
    /\ embedRun = EmbedIdle
    /\ last = NoLast
    /\ relay = NoRelay

ConcurrentNext ==
    \/ EmbedTool(100, FALSE)
    \/ \E v \in {<<>>, <<<<50, 0>>>>} : EmbedResume(v)
    \/ \E t \in {"related", "caused"} : LinkDuringEmbed("n1", "a", t)
    \/ \E e \in {M4, M4Array} : AppendDuringEmbed(e)
    \/ SearchDuringEmbed(<<"tags">>, 10, DefaultMinScore, <<>>)

SpecConcurrent == ConcurrentInit /\ [][ConcurrentNext]_vars

(***************************************************************************)
(* The browser relay extension (assets/chrome-extension/background.js).    *)
(* JavaScript runs one task at a time: a task (a click, a timer, a socket  *)
(* event, a settled fetch) runs to its end, then every continuation that   *)
(* became ready (relay.microtasks) runs before the next task starts.       *)
(* A connection attempt is the promise relayConnectPromise holds: it is at *)
(* the preflight (getRelayPort and fetch), waits for the socket to open,   *)
(* or is settled.  A call of ensureRelayConnection is suspended at line    *)
(* 206 (the call that started the attempt) or at line 155 (a call that     *)
(* found one), or has returned.                                            *)
(***************************************************************************)
memory == <<files, now, plugin, embedder, callers, embedRun, last>>

\* relayWs && relayWs.readyState === WebSocket.OPEN
RelayOpen(r) == r.relayWs # 0 /\ r.sockets[r.relayWs].readyState = "OPEN"

InFlight(r) == {a \in 1..Len(r.attempts) : r.attempts[a].pc \in {"preflight", "open"}}

NoTab == [state |-> "none", sessionId |-> 0]

clearAutoReconnectTimer(r) == [r EXCEPT !.autoReconnectTimer = "null"]

\* scheduleAutoReconnect up to setTimeout; the callback is TimerFires.
scheduleAutoReconnect(r) == [r EXCEPT !.autoReconnectTimer = "armed"]

\* What the caller of ensureRelayConnection does once the call has returned
\* (ret "open" or "ok") or thrown (ret "error"): connectOrToggleForActiveTab
\* goes on to attachTab or deletes the tab, the timer callback schedules the
\* next try.
AfterEnsure(r, from, tab, ret) ==
    IF from = "click"
    THEN IF ret = "error" THEN [r EXCEPT !.tabs[tab] = NoTab]
         ELSE [r EXCEPT !.attaching = @ \cup {<<tab, "click">>}]
    ELSE IF ret = "error" THEN scheduleAutoReconnect(r) ELSE r

\* ensureRelayConnection() up to its first await, called by `from` for `tab`.
ensureRelayConnection(r, from, tab) ==
    LET call(role, a, pc, ret) ==
          [from |-> from, tab |-> tab, role |-> role, attempt |-> a, pc |-> pc,
           ret |-> ret]
    IN IF RelayOpen(r)
       THEN AfterEnsure([r EXCEPT !.calls = Append(@, call("none", 0, "returned", "open"))],
                        from, tab, "open")
       ELSE IF r.relayConnectPromise # 0
       THEN [r EXCEPT !.calls = Append(@, call("sharer", r.relayConnectPromise,
                                               "await", "none")),
                      !.microtasks =
                          IF r.attempts[r.relayConnectPromise].pc \in {"fulfilled", "rejected"}
                          THEN Append(@, Len(r.calls) + 1) ELSE @]
       ELSE [r EXCEPT !.attempts = Append(@, [pc |-> "preflight", ws |-> 0]),
                      !.relayConnectPromise = Len(r.attempts) + 1,
                      !.calls = Append(@, call("starter", Len(r.attempts) + 1,
                                               "await", "none"))]

\* The promise of attempt a settles: the calls awaiting it become ready, in
\* the order in which they started to await.
Settle(r, a, outcome) ==
    [r EXCEPT !.attempts[a].pc = outcome,
              !.microtasks = @ \o SelectSeq([c \in 1..Len(r.calls) |-> c],
                                            LAMBDA c : /\ r.calls[c].attempt = a
                                                       /\ r.calls[c].pc = "await")]

\* onRelayClosed(reason)
onRelayClosed(r) ==
    scheduleAutoReconnect(
       [r EXCEPT !.relayWs = 0,
                 !.pending = {},
                 !.requests = [id \in CommandIds |->
                                 IF id \in r.pending THEN "rejected: disconnected"
                                 ELSE r.requests[id]],
                 !.tabs = [t \in TabIds |-> NoTab],
                 !.tabBySession = {},
                 !.childSessionToTab = {}])

\* detachTab(tabId, reason)
detachTab(r, t) ==
    [r EXCEPT !.tabBySession = {p \in @ : p[1] # r.tabs[t].sessionId},
              !.tabs[t] = NoTab,
              !.childSessionToTab = {p \in @ : p[2] # t}]

\* The user clicks the extension's button on tab t: connectOrToggleForActiveTab.
Click(t) ==
    /\ relay.microtasks = <<>>
    /\ IF relay.tabs[t].state = "connected"
       THEN relay' = detachTab(relay, t)
       ELSE relay' = ensureRelayConnection(
                        [relay EXCEPT !.tabs[t] = [state |-> "connecting",
                                                   sessionId |-> 0]],
                        "click", t)
    /\ UNCHANGED memory

\* The reconnect timer fires; sticky: whether loadStickyTabIds() returned a
\* tab id.
TimerFires(sticky) ==
    /\ relay.microtasks = <<>>
    /\ relay.autoReconnectTimer = "armed"
    /\ IF sticky /\ ~RelayOpen(relay)
       THEN relay' = ensureRelayConnection(
                        [relay EXCEPT !.autoReconnectTimer = "fired"], "timer", 0)
       ELSE relay' = [relay EXCEPT !.autoReconnectTimer = "fired"]
    /\ UNCHANGED memory

\* getRelayPort() and the preflight fetch of attempt a resolved: the socket
\* is created and becomes relayWs.
PreflightOk(a) ==
    /\ relay.microtasks = <<>>
    /\ a \in 1..Len(relay.attempts) /\ relay.attempts[a].pc = "preflight"
    /\ relay' = [relay EXCEPT
                   !.sockets = Append(@, [readyState |-> "CONNECTING",
                                          handlers |-> "connect", attempt |-> a]),
                   !.relayWs = Len(relay.sockets) + 1,
                   !.attempts[a] = [pc |-> "open", ws |-> Len(relay.sockets) + 1]]
    /\ UNCHANGED memory

\* The preflight fetch of attempt a failed or timed out.
PreflightFails(a) ==
    /\ relay.microtasks = <<>>
    /\ a \in 1..Len(relay.attempts) /\ relay.attempts[a].pc = "preflight"
    /\ relay' = Settle(relay, a, "rejected")
    /\ UNCHANGED memory

\* The five-second timer of attempt a fires before its socket opened.
ConnectTimeout(a) ==
    /\ relay.microtasks = <<>>
    /\ a \in 1..Len(relay.attempts) /\ relay.attempts[a].pc = "open"
    /\ relay' = Settle(relay, a, "rejected")
    /\ UNCHANGED memory

\* Socket s opens.  While its attempt waits for it, onopen resolves and the
\* attempt runs to its end: the relay's handlers are set, the reconnect
\* timer is cleared, autoReattachStickyTabs is started.
SocketOpens(s) ==
    /\ relay.microtasks = <<>>
    /\ s \in 1..Len(relay.sockets) /\ relay.sockets[s].readyState = "CONNECTING"
    /\ LET a == relay.sockets[s].attempt
           opened == [relay EXCEPT !.sockets[s].readyState = "OPEN"]
       IN relay' = IF relay.attempts[a].pc = "open"
                   THEN Settle(clearAutoReconnectTimer(
                                  [opened EXCEPT !.sockets[s].handlers = "relay",
                                                 !.reattach = TRUE]),
                               a, "fulfilled")
                   ELSE opened
    /\ UNCHANGED memory

\* Socket s fails or is closed: its onerror and onclose handlers run.
SocketCloses(s) ==
    /\ relay.microtasks = <<>>
    /\ s \in 1..Len(relay.sockets) /\ relay.sockets[s].readyState # "CLOSED"
    /\ LET a == relay.sockets[s].attempt
           closed == [relay EXCEPT !.sockets[s].readyState = "CLOSED"]
       IN relay' = IF relay.sockets[s].handlers = "relay" THEN onRelayClosed(closed)
                   ELSE IF relay.attempts[a].pc = "open" THEN Settle(closed, a, "rejected")
                   ELSE closed
    /\ UNCHANGED memory

\* The continuation of the call at the head of the queue runs: the call that
\* started the attempt clears relayConnectPromise in its finally; the call
\* returns or throws as the attempt did, and its caller goes on.
RunMicrotask ==
    /\ relay.microtasks # <<>>
    /\ LET c == Head(relay.microtasks)
           call == relay.calls[c]
           ret == IF relay.attempts[call.attempt].pc = "fulfilled" THEN "ok" ELSE "error"
           resumed == [relay EXCEPT
                         !.microtasks = Tail(@),
                         !.calls[c].pc = "returned", !.calls[c].ret = ret,
                         !.relayConnectPromise = IF call.role = "starter" THEN 0 ELSE @]
       IN relay' = AfterEnsure(resumed, call.from, call.tab, ret)
    /\ UNCHANGED memory

\* autoReattachStickyTabs reaches sticky tab t, or finds none.
Reattach(t) ==
    /\ relay.microtasks = <<>>
    /\ relay.reattach
    /\ relay' = IF t \in TabIds /\ relay.tabs[t].state # "connected"
                THEN [relay EXCEPT !.reattach = FALSE,
                                   !.tabs[t] = [state |-> "connecting", sessionId |-> 0],
                                   !.attaching = @ \cup {<<t, "reattach">>}]
                ELSE [relay EXCEPT !.reattach = FALSE]
    /\ UNCHANGED memory

\* attachTab(t) gets past its awaits on chrome.debugger (ok) or throws there;
\* past them it records the session and sends the event, and sendToRelay
\* throws when the relay is not connected.  connectOrToggleForActiveTab
\* deletes the tab on a throw, autoReattachStickyTabs only sets the badge.
AttachTab(t, from, ok) ==
    /\ relay.microtasks = <<>>
    /\ <<t, from>> \in relay.attaching
    /\ LET left == [relay EXCEPT !.attaching = @ \ {<<t, from>>}]
           attached == [left EXCEPT
                          !.tabs[t] = [state |-> "connected",
                                       sessionId |-> relay.nextSession],
                          !.tabBySession = @ \cup {<<relay.nextSession, t>>},
                          !.nextSession = @ + 1]
           threw == ~ok \/ ~RelayOpen(relay)
           reached == IF ok THEN attached ELSE left
       IN relay' = IF threw /\ from = "click"
                   THEN [reached EXCEPT !.tabs[t] = NoTab]
                   ELSE reached
    /\ UNCHANGED memory

\* onDebuggerEvent: a child session of tab t attaches or detaches.
DebuggerEvent(t, method) ==
    /\ relay.microtasks = <<>>
    /\ relay.tabs[t].sessionId # 0
    /\ relay' = [relay EXCEPT
                   !.childSessionToTab =
                       IF method = "Target.attachedToTarget"
                       THEN @ \cup {<<"child", t>>}
                       ELSE {p \in @ : p[1] # "child"}]
    /\ relay' # relay
    /\ UNCHANGED memory

\* sendToRelay(payload) throws.
SendThrows(r) == ~RelayOpen(r)

\* requestFromRelay(command) with command.id = id.
RequestFromRelay(id) ==
    /\ relay.microtasks = <<>>
    /\ relay.requests[id] = "none"
    /\ LET registered == [relay EXCEPT !.pending = @ \cup {id},
                                       !.requests[id] = "pending"]
       IN relay' = IF SendThrows(registered)
                   THEN [registered EXCEPT !.pending = @ \ {id},
                                           !.requests[id] = "rejected: not connected"]
                   ELSE registered
    /\ UNCHANGED memory

\* onRelayMessage on socket s with the result or the error of command id.
RelayMessage(s, id, isError) ==
    /\ relay.microtasks = <<>>
    /\ s \in 1..Len(relay.sockets)
    /\ relay.sockets[s].readyState = "OPEN" /\ relay.sockets[s].handlers = "relay"
    /\ id \in relay.pending
    /\ relay' = [relay EXCEPT !.pending = @ \ {id},
                              !.requests[id] = IF isError THEN "rejected: error"
                                               ELSE "resolved"]
    /\ UNCHANGED memory

RelayInit ==
    /\ files = [s \in Suffixes |-> NoFile]
    /\ now = StartDay
    /\ plugin = Unregistered
    /\ embedder = NoEmbedder
    /\ callers = <<>>
    /\ embedRun = EmbedIdle
    /\ last = NoLast
    /\ relay = NoRelay

\* The user and the timer act while fewer than MaxRelayCalls calls of
\* ensureRelayConnection were made.
RelayClick(t) == Len(relay.calls) < MaxRelayCalls /\ Click(t)

RelayTimerFires(sticky) == Len(relay.calls) < MaxRelayCalls /\ TimerFires(sticky)

RelayNext ==
    \/ \E t \in TabIds : RelayClick(t)
    \/ \E sticky \in BOOLEAN : RelayTimerFires(sticky)
    \/ \E a \in 1..MaxRelayCalls : PreflightOk(a)
    \/ \E a \in 1..MaxRelayCalls : PreflightFails(a)
    \/ \E a \in 1..MaxRelayCalls : ConnectTimeout(a)
    \/ \E s \in 1..MaxRelayCalls : SocketOpens(s)
    \/ \E s \in 1..MaxRelayCalls : SocketCloses(s)
    \/ RunMicrotask
    \/ \E t \in TabIds \cup {0} : Reattach(t)
    \/ \E t \in TabIds, from \in {"click", "reattach"}, ok \in BOOLEAN : AttachTab(t, from, ok)
    \/ \E t \in TabIds, m \in {"Target.attachedToTarget", "Target.detachedFromTarget"} :
          DebuggerEvent(t, m)
    \/ \E id \in CommandIds : RequestFromRelay(id)
    \/ \E s \in 1..MaxRelayCalls, id \in CommandIds, isError \in BOOLEAN :
          RelayMessage(s, id, isError)

SpecRelay == RelayInit /\ [][RelayNext]_vars

(***************************************************************************)
(* The connection alone: the calls of ensureRelayConnection, the attempts  *)
(* and the sockets, with no request sent and no debugger session attached, *)
(* so that one more call fits.                                             *)
(***************************************************************************)
ConnectClick(t) == Len(relay.calls) < MaxConnectCalls /\ Click(t)

ConnectTimerFires(sticky) == Len(relay.calls) < MaxConnectCalls /\ TimerFires(sticky)

ConnectNext ==
    \/ \E t \in TabIds : ConnectClick(t)
    \/ \E sticky \in BOOLEAN : ConnectTimerFires(sticky)
    \/ \E a \in 1..MaxConnectCalls : PreflightOk(a)
    \/ \E a \in 1..MaxConnectCalls : PreflightFails(a)
    \/ \E a \in 1..MaxConnectCalls : ConnectTimeout(a)
    \/ \E s \in 1..MaxConnectCalls : SocketOpens(s)
    \/ \E s \in 1..MaxConnectCalls : SocketCloses(s)
    \/ RunMicrotask

SpecConnect == RelayInit /\ [][ConnectNext]_vars

(***************************************************************************)
(* Properties.                                                             *)
(***************************************************************************)
\* The entries the store reads back from the index file of file system fs.
Persisted(fs) == loadIndex(fs[plugin.indexPath]).memories

PersistedIds(fs) == {Persisted(fs)[i].id : i \in 1..Len(Persisted(fs))}

HasEdge(memories, from, to, type) ==
    \E i \in 1..Len(memories) :
       /\ memories[i].id = from
       /\ \E k \in 1..Len(memories[i].relations) :
             memories[i].relations[k] = [id |-> to, type |-> type]

\* The step is the return of tool `op`.
Returns(op) == last'.op = op /\ now' # now

\* C10: under any interleaving of initialize() and embed() calls on one
\* embedder the model load is started at most once, and a caller that waits
\* in initialize() waits for a load that was started (the one in flight or
\* the one that settled), never for one of its own.
C10_LoadStartedAtMostOnce ==
    /\ embedder.loads <= 1
    /\ \A c \in DOMAIN callers :
          callers[c].pc = "init_wait" => embedder.loading # "null" /\ embedder.loads = 1

\* Two callers wait for the one load in flight.
C10_Witness ==
    /\ embedder.loading = "pending"
    /\ \E c, d \in DOMAIN callers :
          c # d /\ callers[c].pc = "init_wait" /\ callers[d].pc = "init_wait"

AccessCountOf(memories, id) ==
    LET e == MemoryById(memories, id)
    IN IF e = <<>> \/ e[1].accessCount = UNDEFN THEN 0 ELSE e[1].accessCount

\* C1: each time memory_v2_search returns an entry as a top-level result,
\* the accessCount stored for it in the index file after the search is one
\* greater than before (a missing count is 0) and its lastAccessed is set.
C1_AccessCountPersisted ==
    [][(Returns("search") /\ ~last'.threw) =>
          \A i \in 1..Len(last'.results) :
             LET id == last'.results[i].id
             IN /\ AccessCountOf(Persisted(files'), id)
                      = AccessCountOf(Persisted(files), id) + 1
                /\ MemoryById(Persisted(files'), id)[1].lastAccessed # UNDEFN]_vars

\* C2: memory_v2_link with a sourceId or targetId that matches no entry
\* leaves every file unchanged, and the error it returns names exactly the
\* sides that match no entry of the index (none when both are found).
C2_FailedLinkPersistsNothing ==
    [][Returns("link") =>
          /\ last'.error =
                {side \in {"source", "target"} :
                    (IF side = "source" THEN last'.sourceId ELSE last'.targetId)
                       \notin PersistedIds(files)}
          /\ (last'.error # {} => files' = files)]_vars

\* A link failed on one side only: the source exists, the target does not.
C2_Witness ==
    /\ last.op = "link" /\ last.error = {"target"}
    /\ last.sourceId \in PersistedIds(files)
    /\ last.targetId \notin PersistedIds(files)

Inverse(t) == IF t = "caused" THEN "caused_by"
              ELSE IF t = "caused_by" THEN "caused" ELSE t

\* C3: after memory_v2_link(A, B, T) succeeded, for any relation type T, the
\* persisted index holds the edge (B, T) in A's relations and the edge
\* (A, inverse(T)) in B's, inverse swapping caused and caused_by and keeping
\* every other type; inverse(inverse(T)) = T.
C3_LinkCreatesBothEdges ==
    /\ \A t \in MemoryRelationType :
          INVERSE_RELATION(INVERSE_RELATION(t)) = t
    /\ (last.op = "link" /\ last.error = {}) =>
          /\ HasEdge(Persisted(files), last.sourceId, last.targetId, last.relType)
          /\ HasEdge(Persisted(files), last.targetId, last.sourceId,
                     Inverse(last.relType))

\* A link of type caused between two different entries succeeded.
C3_Witness ==
    /\ last.op = "link" /\ last.error = {} /\ last.relType = "caused"
    /\ last.sourceId # last.targetId
    /\ HasEdge(Persisted(files), last.targetId, last.sourceId, "caused_by")

IdsIn(f) == {loadIndex(f).memories[i].id : i \in 1..Len(loadIndex(f).memories)}

\* C4: auto-linking is symmetric: every `related` edge a memory_v2_embed run
\* adds to the persisted index from an entry M to an entry N comes with the
\* `related` edge from N to M.
C4_AutoLinkSymmetric ==
    [][Returns("embed") =>
          \A m, n \in PersistedIds(files') :
             (/\ HasEdge(Persisted(files'), m, n, "related")
              /\ ~HasEdge(Persisted(files), m, n, "related"))
             => HasEdge(Persisted(files'), n, m, "related")]_vars

\* C5: no operation deletes an entry: every entry id the store reads from a
\* file before a step it still reads from that file after the step.
C5_NoEntryDeleted ==
    [][\A s \in Suffixes : IdsIn(files[s]) \subseteq IdsIn(files'[s])]_vars

\* The entries of the index all have the properties the claim does not name.
OnlyMissing(fs, fields) ==
    \A memories \in {Persisted(fs)} :
       \A i \in 1..Len(memories) :
       LET e == memories[i]
       IN /\ e.id # UNDEF /\ e.content # UNDEF /\ e.type # UNDEF
          /\ e.importance # UNDEFN /\ e.timestamp # UNDEFN
          /\ "file" \notin fields => e.file # UNDEF
          /\ "tags" \notin fields => e.tags # NOTAGS
          /\ "line" \notin fields => e.line # UNDEFN

\* C6: a search over entries of which some lack `file` (and nothing else)
\* does not throw, and every result whose entry lacks `file` has the empty
\* string as its path.
C6_MissingFileEmptyPath ==
    [][(Returns("search") /\ OnlyMissing(files, {"file"})) =>
          /\ ~last'.threw
          /\ \A i \in 1..Len(last'.results) :
                MemoryById(Persisted(files), last'.results[i].id)[1].file = UNDEF
                => last'.results[i].path = <<"">>]_vars

\* C7: a search over an index in which some entries lack `tags` or `line`
\* (and nothing else) completes without throwing.
C7_MissingTagsNoThrow ==
    [][(Returns("search") /\ OnlyMissing(files, {"tags", "line"})) =>
          ~last'.threw]_vars

\* C8: with the legacy *.json path configured the plugin behaves as with the
\* sibling *.jsonl path configured: registration leaves the same files and
\* reports the same conversion as registration with the sibling path would,
\* whatever the legacy file holds; the tools read and write the sibling, and
\* no tool call changes any other file.
C8_LegacyPathUsesSibling ==
    [][(plugin'.registered /\ plugin'.configPath = "json") =>
          /\ plugin'.indexPath = "jsonl"
          /\ plugin'.indexPath = ResolvePaths("jsonl").indexPath
          /\ Returns("register") =>
                /\ files' = RegisterMigration("jsonl", files).fs
                /\ last'.converted = RegisterMigration("jsonl", files).migrated
          /\ ~Returns("register") =>
                \A s \in Suffixes \ {"jsonl"} : files'[s] = files[s]]_vars

\* The *.json path is configured, the legacy file is there but empty, and a
\* search returned an entry of the sibling.
C8_Witness ==
    /\ plugin.registered /\ plugin.configPath = "json"
    /\ files["json"].exists /\ IsEmptyFile(files["json"])
    /\ last.op = "search" /\ last.results # <<>>
    /\ \A i \in 1..Len(last.results) : last.results[i].id \in IdsIn(files["jsonl"])

\* What the conversion keeps of an entry: everything but the date it may add
\* and the encoding of the embedding.
EntryCore(e) ==
    [e EXCEPT !.date = 0,
              !.embedding = IF e.embedding.form = "array" THEN encodeEmbedding(@.vec)
                            ELSE @]

\* C9: registration converts only when the legacy file exists and the
\* sibling does not; it leaves an existing sibling unchanged; no step
\* changes the legacy file or removes the sibling (so a later registration
\* converts nothing); after a conversion the sibling holds exactly the
\* legacy entries, in the same order.
C9_PathMigrationOnce ==
    [][/\ files'["json"] = files["json"]
       /\ files["jsonl"].exists => files'["jsonl"].exists
       /\ Returns("register") =>
             /\ last'.converted => files["json"].exists /\ ~files["jsonl"].exists
             /\ files["jsonl"].exists =>
                   files'["jsonl"] = files["jsonl"] /\ ~last'.converted
             /\ last'.converted =>
                   LET legacy == ParseWhole(files["json"])[1].mems
                       sibling == loadIndex(files'["jsonl"]).memories
                   IN /\ Len(sibling) = Len(legacy)
                      /\ \A i \in 1..Len(legacy) :
                            EntryCore(sibling[i]) = EntryCore(legacy[i])]_vars

\* A registration converted a legacy file that holds entries.
C9_Witness ==
    /\ last.op = "register" /\ last.converted
    /\ loadIndex(files["jsonl"]).memories # <<>>
    /\ files["json"].exists

\* Caller c returns in this step.
CallerReturns(c) == callers'[c] # callers[c] /\ callers'[c].pc = "idle"

\* C11: the outcome of the single load is cached and every caller observes
\* it: once the load has settled the embedder never changes again (no new
\* load is started); no call returns before the load has settled; every
\* initialize() that returns, returns true when the load succeeded and false
\* when it failed; every embed() that returns after a failed load returns
\* null.
C11_LoadOutcomeCached ==
    [][/\ embedder.loading = "settled" => embedder' = embedder
       /\ \A c \in DOMAIN callers :
             CallerReturns(c) =>
                /\ embedder.loading = "settled"
                /\ callers'[c].op = "initialize" =>
                      callers'[c].ret = (IF embedder.pipeline THEN "true" ELSE "false")
                /\ (callers'[c].op = "embed" /\ ~embedder.pipeline) =>
                      callers'[c].ret = "null"]_vars

\* The load failed; one caller's second initialize() returned false, another
\* caller's embed() returned null, and still one load only was started.
C11_Witness ==
    /\ embedder.loading = "settled" /\ ~embedder.pipeline /\ embedder.loads = 1
    /\ \E c, d \in DOMAIN callers :
          /\ c # d
          /\ callers[c] = [pc |-> "idle", op |-> "initialize", calls |-> 2,
                           ret |-> "false"]
          /\ callers[d].pc = "idle" /\ callers[d].op = "embed"
          /\ callers[d].ret = "null"

\* The keyword score of an entry plus the importance term, in units of
\* 1/SCALE: (effectiveImportance / 10) * 0.1 is 1/3,650,000 per unit.  It is
\* NaN, which is at or above no threshold, for an entry whose timestamp is
\* no date.
KeywordPlusImportance(entry, query) ==
    IF effectiveImportance(entry) = NaN THEN NaN
    ELSE (IF QueryTerms(query) # <<>>
          THEN scoreKeywordMatch(entry, QueryTerms(query)) ELSE 0)
         + effectiveImportance(entry) * (SCALE \div 3650000)

\* The positions of a keyword-only ranking, `scores` being the score of each
\* entry of the index: those at or above minScore, by score descending,
\* earlier entries first among equal scores.
KeywordRanking(scores, minScore) ==
    LET kept == {i \in 1..Len(scores) : scores[i] # NaN /\ scores[i] >= minScore}
        before(i, j) ==
            \/ scores[i] > scores[j]
            \/ scores[i] = scores[j] /\ i < j
    IN [k \in 1..Cardinality(kept) |->
          CHOOSE i \in kept : Cardinality({j \in kept : before(j, i)}) = k - 1]

\* The embedding provider gave the search no query vector: it is not
\* configured, its load failed, or the pipeline returned none.
NoQueryVector ==
    \/ plugin.provider # "local"
    \/ ~embedder.pipeline
    \/ last'.queryEmbedding = <<>>

\* C12: a search that gets no query vector over an index of complete entries
\* and with at least one query term does not throw and reports keyword mode;
\* its results are the entries ranked by keyword score plus importance term
\* (those at or above minScore, best first, cut to maxResults), each with
\* that score, and the semantic score of every entry is 0.
C12_KeywordFallback ==
    [][(Returns("search") /\ NoQueryVector /\ QueryTerms(last'.query) # <<>>
        /\ OnlyMissing(files, {})) =>
          \A memories \in {Persisted(files)} :
          \A scores \in {[i \in 1..Len(memories) |->
                             KeywordPlusImportance(memories[i], last'.query)]} :
          \A ranking \in {KeywordRanking(scores, last'.minScore)} :
          LET n == Min2(Len(ranking), last'.maxResults)
          IN /\ ~last'.threw
             /\ last'.searchMode = "keyword"
             /\ Len(last'.results) = n
             /\ \A k \in 1..n :
                   /\ last'.results[k].id = memories[ranking[k]].id
                   /\ last'.results[k].score = RoundScore(scores[ranking[k]])
             /\ \A i \in 1..Len(memories) :
                   ScoreEntry(memories[i], QueryTerms(last'.query),
                              last'.queryEmbedding).semanticScore = 0]_vars

\* The provider is configured but its load failed, and a search returned
\* several entries in keyword mode, entries with an embedding among them.
C12_Witness ==
    /\ plugin.provider = "local" /\ embedder.loading = "settled" /\ ~embedder.pipeline
    /\ last.op = "search" /\ last.searchMode = "keyword" /\ Len(last.results) >= 2
    /\ \E i \in 1..Len(Persisted(files)) : HasEmbedding(Persisted(files)[i])

\* The score searchMemories gives entry i of `memories` for the call recorded
\* in last'.
ScoreAt(memories, i) ==
    ScoreEntry(memories[i], QueryTerms(last'.query), last'.queryEmbedding).score

\* The entries of `memories` whose score is at or above last'.minScore.
Qualifying(memories) ==
    {i \in 1..Len(memories) :
        ScoreAt(memories, i) # NaN /\ ScoreAt(memories, i) >= last'.minScore}

\* Entry i of `memories` outranks entry j: a higher score, or the same score
\* and an earlier place in the index.
Outranks(memories, i, j) ==
    \/ ScoreAt(memories, i) > ScoreAt(memories, j)
    \/ ScoreAt(memories, i) = ScoreAt(memories, j) /\ i < j

\* The place in `memories` of the k-th entry of last'.ranked (ids are unique).
PlaceOf(memories, k) ==
    CHOOSE i \in 1..Len(memories) : memories[i].id = last'.ranked[k].id

\* C13: for a query with a term or a vector, the result of searchMemories
\* holds only entries whose score is at or above minScore, each once, best
\* first with equal scores in index order; it never holds more than
\* maxResults entries (none for a limit below 0); it holds that many entries
\* or every qualifying entry; and no qualifying entry it leaves out outranks
\* one it returns.
C13_RankedExactly ==
    [][(Returns("searchMemories") /\ ~last'.threw
        /\ (QueryTerms(last'.query) # <<>> \/ last'.queryEmbedding # <<>>)) =>
          LET memories == Persisted(files)
              n == Len(last'.ranked)
          IN /\ n <= Max2(last'.maxResults, 0)
             /\ n = Max2(last'.maxResults, 0) \/ n = Cardinality(Qualifying(memories))
             /\ \A k \in 1..n :
                   /\ PlaceOf(memories, k) \in Qualifying(memories)
                   /\ last'.ranked[k].score = ScoreAt(memories, PlaceOf(memories, k))
             /\ \A k, l \in 1..n :
                   k < l => Outranks(memories, PlaceOf(memories, k),
                                     PlaceOf(memories, l))
             /\ \A i \in Qualifying(memories), k \in 1..n :
                   Outranks(memories, i, PlaceOf(memories, k))
                   => \E l \in 1..n : PlaceOf(memories, l) = i]_vars

\* C14: searchMemories called with a query that has no term longer than one
\* character and with no query vector returns no results and does not
\* throw, whatever the index holds and whatever minScore is.
C14_NoTermsNoVectorNoResults ==
    [][(/\ Returns("searchMemories")
        /\ \A i \in 1..Len(last'.query) : TermLength(last'.query[i]) <= 1
        /\ last'.queryEmbedding = <<>>) =>
          ~last'.threw /\ last'.ranked = <<>>]_vars

\* Such a call, with a one-character token, returned nothing at minScore 0
\* over an index whose entries all have a defined score of 0 or more, one of
\* them without tags.
C14_Witness ==
    /\ last.op = "searchMemories" /\ last.query = <<"a", "">>
    /\ last.queryEmbedding = <<>> /\ last.minScore = 0 /\ last.maxResults = 10
    /\ last.ranked = <<>>
    /\ Len(Persisted(files)) = 3
    /\ \E i \in 1..3 : Persisted(files)[i].tags = NOTAGS
    /\ \A i \in 1..3 : effectiveImportance(Persisted(files)[i]) > 0

\* C15: scoreKeywordMatch, for an entry with importance 1 to 10 and any
\* list of query terms, returns a value from 0 to 1 (SCALE is 1).
C15_KeywordScoreInUnitInterval ==
    (last.op = "scoreKeywordMatch" /\ ~last.threw) =>
        0 <= last.value /\ last.value <= SCALE

\* An entry of importance 10 that matches the one term in content, tags and
\* type (0.9 + 0.2 + 0.1 before the cap) scored exactly 1.
C15_Witness ==
    /\ last.op = "scoreKeywordMatch" /\ ~last.threw
    /\ last.arg.importance = 10 /\ last.query = <<"event">>
    /\ last.arg.content = "event"
    /\ last.value = SCALE

\* C16: effectiveImportance(entry) lies between 0.3 x importance and
\* 2.0 x importance for every timestamp, before or after now, and every
\* access count (the value is in units of 1/36500).
C16_EffectiveImportanceBounded ==
    last.op = "effectiveImportance" =>
        /\ 10950 * last.arg.importance <= last.value
        /\ last.value <= 73000 * last.arg.importance

AccessCountOr0(entry) == IF entry.accessCount = UNDEFN THEN 0 ELSE entry.accessCount

\* C17: of two calls of effectiveImportance on entries of the same
\* importance, with the same access count the call on the older entry
\* returns no more, and with the same age the call on the entry accessed
\* more often returns no less.
C17_EffectiveImportanceMonotone ==
    (last.op = "effectiveImportance" /\ last.prev # <<>>
     /\ last.prev[1].arg.importance = last.arg.importance) =>
        LET one == last.prev[1]
            age1 == one.at - one.arg.timestamp
            age2 == last.at - last.arg.timestamp
        IN /\ (AccessCountOr0(one.arg) = AccessCountOr0(last.arg) /\ age1 <= age2)
                 => last.value <= one.value
           /\ (age1 = age2 /\ AccessCountOr0(one.arg) <= AccessCountOr0(last.arg))
                 => last.value >= one.value

\* The same entry was scored on two days and lost importance in between.
C17_Witness ==
    /\ last.op = "effectiveImportance" /\ last.prev # <<>>
    /\ last.prev[1].arg = last.arg
    /\ last.at > last.prev[1].at
    /\ last.value < last.prev[1].value

\* The embedding values of the entries, in the order of the index.
Embeddings(memories) == [i \in 1..Len(memories) |-> memories[i].embedding]

\* C18: memory_v2_migrate run on an index none of whose embeddings is in
\* the legacy array form reports migrated = 0 and alreadyBinary = the number
\* of entries with an embedding, and leaves the embedding value of every
\* entry as it was; after any run of it no embedding is in the legacy form,
\* so this holds of a second run.
C18_MigrateIdempotent ==
    [][Returns("migrate") =>
          /\ \A i \in 1..Len(Persisted(files')) :
                Persisted(files')[i].embedding.form # "array"
          /\ (\A i \in 1..Len(Persisted(files)) :
                 Persisted(files)[i].embedding.form # "array") =>
                /\ last'.migrated = 0
                /\ last'.alreadyBinary =
                      Cardinality({i \in 1..Len(Persisted(files)) :
                                      HasEmbedding(Persisted(files)[i])})
                /\ Embeddings(Persisted(files')) = Embeddings(Persisted(files))]_vars

\* A second operation, the migration, found both embeddings of an index
\* compact that held m1's as an array of doubles at the start.
C18_Witness ==
    /\ last.op = "migrate" /\ last.migrated = 0 /\ last.alreadyBinary = 2
    /\ now = StartDay + 2
    /\ MemoryById(Persisted(files), "m1") # <<>>
    /\ MemoryById(Persisted(files), "m1")[1].embedding = encodeEmbedding(<<31, 40>>)

\* The similarity of two entries with embeddings, in units of 1/25.
Similarity(a, b) ==
    cosineSimilarityF32(getEmbeddingFloat32(a)[1], getEmbeddingFloat32(b)[1])

\* The ids of the entries of `after` that hold a `related` edge to n which
\* they did not hold in `before`.
NewlyLinkedTo(before, after, n) ==
    {m \in {after[i].id : i \in 1..Len(after)} :
        /\ HasEdge(after, m, n, "related")
        /\ ~HasEdge(before, m, n, "related")}

\* C19: a run of memory_v2_embed links at most 3 entries to an entry N;
\* each of them is another entry than N, has an embedding as N has, and is
\* similar to N by 0.65 or more; and no entry that stays unlinked to N is
\* more similar to N than one that was linked.
C19_AutoLinkAtMostThree ==
    [][Returns("embed") =>
          \A before \in {Persisted(files)}, after \in {Persisted(files')} :
             \A i \in 1..Len(after) :
                \A N \in {after[i]}, new \in {NewlyLinkedTo(before, after, after[i].id)} :
                   /\ Cardinality(new) <= 3
                   /\ \A j \in 1..Len(after) :
                         after[j].id \in new =>
                            /\ after[j].id # N.id
                            /\ HasEmbedding(N) /\ HasEmbedding(after[j])
                            /\ \A sim \in {Similarity(N, after[j])} :
                                  /\ sim * 4 >= 65
                                  /\ \A x \in 1..Len(after) :
                                        (/\ after[x].id # N.id
                                         /\ HasEmbedding(after[x])
                                         /\ ~HasEdge(after, after[x].id, N.id, "related"))
                                        => Similarity(N, after[x]) <= sim]_vars

\* A run linked exactly three entries to an entry that has five or more
\* other entries at or above the threshold.
C19_Witness ==
    /\ last.op = "embed" /\ last.embedded > 0
    /\ \E n \in PersistedIds(files) :
          LET N == MemoryById(Persisted(files), n)[1]
          IN /\ HasEmbedding(N)
             /\ Cardinality({m \in PersistedIds(files) :
                   HasEdge(Persisted(files), m, n, "related")}) = 3
             /\ Cardinality({m \in PersistedIds(files) \ {n} :
                   /\ HasEmbedding(MemoryById(Persisted(files), m)[1])
                   /\ Similarity(N, MemoryById(Persisted(files), m)[1]) * 4 >= 65})
                >= 5

\* C20: loadIndex of a path where no file is returns an index with no
\* entries and the version "2.1", the default of loadIndex; it creates no
\* file (no file changes) and does not throw.
C20_LoadAbsentIsEmpty ==
    [][(Returns("loadIndex") /\ ~files[last'.path].exists) =>
          /\ ~last'.threw
          /\ Len(last'.loaded) = 1
          /\ last'.loaded[1].memories = <<>>
          /\ last'.loaded[1].version = "2.1"
          /\ files' = files
          /\ ~files'[last'.path].exists]_vars

\* loadIndex returned the empty index for a path without a file while the
\* index file beside it holds entries.
C20_Witness ==
    /\ last.op = "loadIndex" /\ ~files[last.path].exists
    /\ last.loaded[1].memories = <<>>
    /\ Len(Persisted(files)) >= 2


\* The lines of file f that hold an entry, in file order.
EntryLines(f) == SelectSeq(f.lines, LAMBDA l : l.k = "entry")

\* File f holds a legacy whole-file index.
HoldsLegacy(f) == \E i \in 1..Len(f.lines) : f.lines[i].k = "legacy"

\* C21: a line that fails to parse never aborts a load: loadIndex of a
\* line-delimited file returns exactly the entries of its well-formed lines
\* that are no metadata, in file order and each with its date ensured, and
\* skips every malformed and every blank line.
C21_LoadSkipsMalformedLines ==
    [][Returns("loadIndex") /\ ~HoldsLegacy(files[last'.path]) =>
         /\ ~last'.threw
         /\ last'.loaded # <<>>
         /\ \A lines \in {EntryLines(files[last'.path])} :
               last'.loaded[1].memories =
                  [i \in 1..Len(lines) |-> ensureDate(lines[i].e)]]_vars

\* A load returned both entries of a file that has a malformed and a blank
\* line between them.
C21_Witness ==
    /\ last.op = "loadIndex"
    /\ Len(last.loaded[1].memories) = 2
    /\ \E i, j, k, l \in 1..Len(files[last.path].lines) :
          /\ i < j /\ j < k /\ k < l
          /\ files[last.path].lines[i].k = "entry"
          /\ files[last.path].lines[j].k = "bad"
          /\ files[last.path].lines[k].k = "blank"
          /\ files[last.path].lines[l].k = "entry"

\* File f is a legacy whole-file index: one JSON object with a `memories`
\* collection, on one line or pretty-printed.
IsLegacyFile(f) == Len(f.lines) = 1 /\ f.lines[1].k = "legacy"

\* C22: loadIndex of a file that holds a legacy whole-file JSON object,
\* written on one line or pretty-printed, returns exactly the entries of its
\* `memories` collection, in order and each with its date ensured, together
\* with the legacy version and embeddingModel.
C22_LegacyLoaded ==
    [][Returns("loadIndex") /\ IsLegacyFile(files[last'.path]) =>
         \A legacy \in {files[last'.path].lines[1]} :
            /\ last'.loaded # <<>>
            /\ last'.loaded[1].memories =
                  [i \in 1..Len(legacy.mems) |-> ensureDate(legacy.mems[i])]
            /\ last'.loaded[1].version =
                  (IF legacy.version = UNDEF THEN "2.0" ELSE legacy.version)
            /\ last'.loaded[1].embeddingModel = legacy.model]_vars

\* C23: for every result whose entry has a `file` starting with "daily/" the
\* emitted path is "memory/" followed by the file; for every other entry
\* with a file the emitted path is the file unchanged.
C23_DailyPathExpanded ==
    [][Returns("search") /\ ~last'.threw =>
         \A memories \in {Persisted(files)} :
            \A r \in 1..Len(last'.results), i \in 1..Len(memories) :
               memories[i].id = last'.results[r].id /\ memories[i].file # UNDEF =>
                  last'.results[r].path =
                     (IF memories[i].file \in {"daily/2026-02-11.md", "daily/"}
                      THEN <<"memory/", memories[i].file>>
                      ELSE <<memories[i].file>>)]_vars

\* A search returned an entry of a daily file under memory/, and left alone
\* the files "daily" and "memory/daily/2026-02-11.md".
C23_Witness ==
    /\ last.op = "search" /\ ~last.threw
    /\ \E r \in 1..Len(last.results) :
          last.results[r].path = <<"memory/", "daily/2026-02-11.md">>
    /\ \E r \in 1..Len(last.results) : last.results[r].path = <<"memory/", "daily/">>
    /\ \E r \in 1..Len(last.results) : last.results[r].path = <<"daily">>
    /\ \E r \in 1..Len(last.results) :
          last.results[r].path = <<"memory/daily/2026-02-11.md">>

\* C24: encoding then decoding a float vector reproduces its float32 values
\* exactly, and getEmbeddingFloat32 gives the same vector for the array form
\* and the compact form of one embedding: whenever a step rewrites an
\* entry's non-empty array embedding as a string, and whenever an entry with
\* such an array is appended, decoding what the file then holds gives the
\* float32 values of the array, element by element.
C24_EncodeDecodeRoundTrip ==
    [][\A before \in {Persisted(files)}, after \in {Persisted(files')} :
         /\ \A i \in 1..Min2(Len(before), Len(after)) :
               /\ before[i].id = after[i].id
               /\ before[i].embedding.form = "array" /\ before[i].embedding.vec # <<>>
               /\ after[i].embedding.form = "b64"
               => /\ decodeEmbedding(after[i].embedding) =
                        [k \in 1..Len(before[i].embedding.vec) |->
                            Fround(before[i].embedding.vec[k])]
                  /\ getEmbeddingFloat32(after[i]) = getEmbeddingFloat32(before[i])
         /\ Returns("append") /\ last'.arg.embedding.form = "array"
            /\ last'.arg.embedding.vec # <<>> =>
               /\ after[Len(after)].embedding.form = "b64"
               /\ getEmbeddingFloat32(after[Len(after)]) = getEmbeddingFloat32(last'.arg)
               /\ decodeEmbedding(encodeEmbedding(last'.arg.embedding.vec)) =
                     [k \in 1..Len(last'.arg.embedding.vec) |->
                         Fround(last'.arg.embedding.vec[k])]]_vars

\* The migration rewrote the array [-3.1, 65536.4, 0.7] (in tenths) as a
\* string that decodes to its float32 values.
C24_Witness ==
    /\ last.op = "migrate" /\ last.migrated = 2
    /\ \E i \in 1..Len(Persisted(files)) :
          /\ Persisted(files)[i].embedding.form = "b64"
          /\ decodeEmbedding(Persisted(files)[i].embedding) = <<0 - 30, 655360, 10>>

\* Query term t occurs in the content, in a tag or in the type of the entry.
TermMatches(entry, t) ==
    \/ t \in Substrings(entry.content)
    \/ \E i \in 1..Len(entry.tags) : t \in Substrings(entry.tags[i])
    \/ t \in Substrings(entry.type)

\* The keyword score before the completeness bonus and the cap: the field
\* weights averaged over the terms, and the raw-importance term.
ScoreBeforeBonus(entry, queryTerms) ==
    LET n == Len(queryTerms)
        tenths == SeqSum([i \in 1..n |->
                     (IF queryTerms[i] \in Substrings(entry.content) THEN 4 ELSE 0)
                     + (IF \E k \in 1..Len(entry.tags) :
                              queryTerms[i] \in Substrings(entry.tags[k]) THEN 3 ELSE 0)
                     + (IF queryTerms[i] \in Substrings(entry.type) THEN 2 ELSE 0)])
    IN (IF n > 0 THEN (tenths * (SCALE \div 10)) \div n ELSE 0)
       + entry.importance * (SCALE \div 50)

\* C25: the keyword scorer adds the completeness bonus of 0.1 if and only if
\* every query term matched the content, a tag or the type of the entry: a
\* query with a term that matches nothing gets no bonus, however many fields
\* its other terms match.
C25_BonusIffEveryTermMatches ==
    (last.op = "scoreKeywordMatch" /\ ~last.threw) =>
        last.value =
           Min2(SCALE,
                ScoreBeforeBonus(last.arg, last.query)
                + (IF \A i \in 1..Len(last.query) : TermMatches(last.arg, last.query[i])
                   THEN SCALE \div 10 ELSE 0))

\* C26: the keyword score does not depend on importance: two calls of
\* scoreKeywordMatch with the same terms on entries that differ only in
\* `importance` return the same score.
C26_KeywordScoreIgnoresImportance ==
    [][/\ last.op = "scoreKeywordMatch" /\ ~last.threw
       /\ Returns("scoreKeywordMatch") /\ ~last'.threw
       /\ last'.query = last.query
       /\ [last'.arg EXCEPT !.importance = 0] = [last.arg EXCEPT !.importance = 0]
       => last'.value = last.value]_vars

\* C27: for every entry the ranker returns, the keyword score is the
\* scorer's (0 for a query without terms), the semantic score is the cosine
\* similarity when a query vector and an entry vector exist and 0 for vectors
\* of different length and without vectors, and the score is
\* 0.6 x semantic + 0.4 x keyword when both vectors exist and the keyword
\* score otherwise, plus effectiveImportance(entry) x 0.1 / 10; a length
\* mismatch makes no call throw.
C27_RankerScore ==
    [][Returns("searchMemories") =>
         /\ last'.threw =>
               \E i \in 1..Len(Persisted(files)) : KeywordThrows(Persisted(files)[i])
         /\ \A memories \in {Persisted(files)}, terms \in {QueryTerms(last'.query)} :
               \A r \in 1..Len(last'.ranked), i \in 1..Len(memories) :
                  memories[i].id = last'.ranked[r].id =>
                     LET e == memories[i]
                         q == last'.queryEmbedding
                         both == q # <<>> /\ HasEmbedding(e)
                         kw == last'.ranked[r].keywordScore
                         sem == last'.ranked[r].semanticScore
                     IN /\ kw = (IF terms = <<>> THEN 0 ELSE scoreKeywordMatch(e, terms))
                        /\ sem = (IF both /\ Len(getEmbeddingFloat32(e)[1]) = Len(q[1])
                                  THEN cosineSimilarityF32(
                                          [k \in 1..Len(q[1]) |-> Fround(q[1][k])],
                                          getEmbeddingFloat32(e)[1])
                                  ELSE 0)
                        /\ last'.ranked[r].score =
                              (IF both THEN sem * 3 * (SCALE \div 125) + (kw \div 5) * 2
                               ELSE kw)
                              + effectiveImportance(e) * 3]_vars

\* A search with a query vector of three elements ranked m1 and m2, whose
\* vectors have two (semantic score 0), and m3, which has none.
C27_Witness ==
    /\ last.op = "searchMemories" /\ ~last.threw
    /\ last.queryEmbedding = <<<<30, 40, 0>>>>
    /\ QueryTerms(last.query) # <<>>
    /\ \E r \in 1..Len(last.ranked) :
          last.ranked[r].id = "m2" /\ last.ranked[r].semanticScore = 0
    /\ \E r \in 1..Len(last.ranked) : last.ranked[r].id = "m3"
    /\ \E i \in 1..Len(Persisted(files)) :
          Persisted(files)[i].id = "m2" /\ HasEmbedding(Persisted(files)[i])

\* File f is one the store built: absent, empty, or a metadata line followed
\* by entry lines and blank lines only.
BuiltByStore(f) ==
    \/ ~f.exists
    \/ IsEmptyFile(f)
    \/ /\ f.lines # <<>> /\ f.lines[1].k = "meta"
       /\ \A i \in 2..Len(f.lines) : f.lines[i].k \in {"entry", "blank"}

\* C28: insertion order is preserved across the store: what loadIndex reads
\* after a saveIndex is the saved entries in their saved order, what it
\* reads after an appendEntry to a file the store built is what it read
\* before followed by the appended entry, and both leave a file the store
\* built; so after any sequence of saves and appends a load returns the
\* entries of the last save followed by those appended since, in append
\* order, each once.
C28_InsertionOrderPreserved ==
    [][\A before \in {Persisted(files)}, after \in {Persisted(files')} :
         /\ Returns("saveIndex") =>
               /\ after = [i \in 1..Len(last'.saved[1].memories) |->
                              Serialized(last'.saved[1].memories[i])]
               /\ BuiltByStore(files'[plugin.indexPath])
         /\ Returns("append") /\ BuiltByStore(files[plugin.indexPath]) =>
               /\ after = before \o <<Serialized(last'.arg)>>
               /\ BuiltByStore(files'[plugin.indexPath])]_vars

\* A save of [m3, m1] followed by the append of m4: the index reads m3, m1,
\* m4.
C28_Witness ==
    /\ last.op = "append"
    /\ files[plugin.indexPath].lines[1] = MetaLine("3.0", StartDay, ModelName)
    /\ [i \in 1..Len(Persisted(files)) |-> Persisted(files)[i].id] = <<"m3", "m1", "m4">>

\* File f has exactly one metadata line, and it is the first line.
OneHeader(f) ==
    /\ f.lines # <<>> /\ f.lines[1].k = "meta"
    /\ \A i \in 2..Len(f.lines) : f.lines[i].k # "meta"

\* The lines of f that are not empty.
WrittenLines(f) == SelectSeq(f.lines, LAMBDA l : l.k # "blank")

\* C29: appendEntry writes a metadata line if and only if the file is
\* missing or empty (the file then holds that line and the entry); on an
\* existing non-empty file it leaves every existing line unchanged and adds
\* only the new entry line at the end; so a file built by saveIndex and
\* appendEntry has exactly one metadata line, the first.
C29_AppendWritesHeaderOnlyOnce ==
    [][\A f \in {files[plugin.indexPath]}, g \in {files'[plugin.indexPath]} :
         /\ Returns("append") /\ (~f.exists \/ IsEmptyFile(f)) =>
               /\ Len(g.lines) = 2 /\ g.lines[1].k = "meta"
               /\ g.lines[2] = EntryLine(Serialized(last'.arg))
         /\ Returns("append") /\ f.exists /\ ~IsEmptyFile(f) =>
               /\ Len(g.lines) > Len(f.lines)
               /\ SubSeq(g.lines, 1, Len(f.lines)) = f.lines
               /\ WrittenLines(g) = WrittenLines(f) \o <<EntryLine(Serialized(last'.arg))>>
               /\ g.lines[Len(g.lines)] = EntryLine(Serialized(last'.arg))
         /\ Returns("saveIndex") => OneHeader(g)
         /\ Returns("append") /\ (~f.exists \/ IsEmptyFile(f) \/ OneHeader(f)) =>
               OneHeader(g)]_vars

\* Two appends to a path where no file was: the file holds the header the
\* first append wrote, and the two entries.
C29_Witness ==
    /\ last.op = "append"
    /\ now = StartDay + 2
    /\ Len(WrittenLines(files[plugin.indexPath])) = 3
    /\ files[plugin.indexPath].lines[1] = MetaLine("3.0", StartDay, UNDEF)
    /\ files[plugin.indexPath].lines[2].k = "entry"

\* No entry's relation list holds two identical (target id, type) pairs.
NoDuplicateRelations(memories) ==
    \A i \in 1..Len(memories) :
       \A j, k \in 1..Len(memories[i].relations) :
          j # k => memories[i].relations[j] # memories[i].relations[k]

\* C30: adding a relation is idempotent: no step of memory_v2_link or of the
\* auto-linker puts two identical (target id, type) pairs into a relation
\* list that had none, and a successful memory_v2_link repeated with the
\* same arguments succeeds again and leaves every relation list unchanged.
C30_AddRelationIdempotent ==
    [][\A before \in {Persisted(files)}, after \in {Persisted(files')} :
         /\ NoDuplicateRelations(before) => NoDuplicateRelations(after)
         /\ (/\ last.op = "link" /\ last.error = {} /\ Returns("link")
             /\ last'.sourceId = last.sourceId /\ last'.targetId = last.targetId
             /\ last'.relType = last.relType)
            => /\ last'.error = {}
               /\ [i \in 1..Len(after) |-> after[i].relations] =
                     [i \in 1..Len(before) |-> before[i].relations]]_vars

\* A link of n1 and a as `caused` was made twice, after which n1 holds the
\* pair (a, caused) once next to the pair (a, related) it had.
C30_Witness ==
    /\ last.op = "link" /\ last.error = {} /\ now = StartDay + 2
    /\ last.sourceId = "n1" /\ last.targetId = "a" /\ last.relType = "caused"
    /\ \E i \in 1..Len(Persisted(files)) :
          /\ Persisted(files)[i].id = "n1"
          /\ Persisted(files)[i].relations =
                <<[id |-> "a", type |-> "related"], [id |-> "a", type |-> "caused"]>>

\* Every edge of the index has its inverse: an edge to B of type T in A's
\* relations comes with an edge to A of type inverse(T) in B's.
EdgesPairwise(memories) ==
    \A i \in 1..Len(memories) :
       \A k \in 1..Len(memories[i].relations) :
          HasEdge(memories, memories[i].relations[k].id, memories[i].id,
                  Inverse(memories[i].relations[k].type))

\* C31: memory_v2_link keeps edges pairwise: from an index in which every
\* edge has its inverse, every step, a memory_v2_link call that succeeded or
\* failed, a self-link and a repeated link included, leaves a persisted
\* index in which every edge A -> B of type T has the edge B -> A of type
\* inverse(T).
C31_LinkKeepsEdgesPairwise ==
    [][\A before \in {Persisted(files)}, after \in {Persisted(files')} :
         EdgesPairwise(before) => EdgesPairwise(after)]_vars

\* m1 was linked to itself as `caused` after another link call, and holds
\* both the edge (m1, caused) and the edge (m1, caused_by).
C31_Witness ==
    /\ last.op = "link" /\ last.error = {} /\ now = StartDay + 2
    /\ last.sourceId = "m1" /\ last.targetId = "m1" /\ last.relType = "caused"
    /\ EdgesPairwise(Persisted(files))
    /\ HasEdge(Persisted(files), "m1", "m1", "caused")
    /\ HasEdge(Persisted(files), "m1", "m1", "caused_by")

\* The ids reachable from the entries with id `from` by at most k relation
\* hops through entries of the index.
RECURSIVE ReachIds(_, _, _)
ReachIds(memories, from, k) ==
    IF k = 0 THEN {from}
    ELSE LET near == ReachIds(memories, from, k - 1)
         IN near \cup UNION {{memories[i].relations[j].id :
                                  j \in 1..Len(memories[i].relations)} :
                               i \in {n \in 1..Len(memories) : memories[n].id \in near}}

\* C32: for every top-level result, the related list built by graph
\* expansion holds no top-level result, not the entry itself and no entry
\* twice, and only entries that exist in the index and are reachable from
\* the result within `depth` relation hops; the related ids memory_v2_search
\* reports (depth 1) are ids of the index, none a result, none twice.
C32_RelatedListWellFormed ==
    /\ last.op = "searchWithGraph" =>
          \A g \in {last.value}, memories \in {last.loaded} :
             \A i \in 1..Len(g) :
                \A related \in {g[i].related} :
                   \A j \in 1..Len(related) :
                      /\ \A r \in 1..Len(g) : related[j].id # g[r].entry.id
                      /\ related[j].id # g[i].entry.id
                      /\ \A k \in 1..Len(related) : k # j => related[k].id # related[j].id
                      /\ \E m \in 1..Len(memories) : memories[m] = related[j]
                      /\ related[j].id \in ReachIds(memories, g[i].entry.id, last.arg)
    /\ (last.op = "search" /\ ~last.threw) =>
          \A results \in {last.results} :
             \A i \in 1..Len(results) :
                \A ids \in {results[i].relatedMemories} :
                   \A j \in 1..Len(ids) :
                      /\ \A r \in 1..Len(results) : ids[j] # results[r].id
                      /\ \A k \in 1..Len(ids) : k # j => ids[k] # ids[j]
                      /\ ids[j] \in PersistedIds(files)

\* Expansion to depth 2 from the results a and c of the index in which a
\* points twice at b, at itself, at c and at an id no entry has, and b points
\* at a and d: a's related list is b then d, c's is empty.
C32_Witness ==
    /\ last.op = "searchWithGraph" /\ last.arg = 2 /\ Len(last.value) = 2
    /\ last.value[1].entry.id = "a" /\ last.value[2].entry.id = "c"
    /\ Len(last.value[1].entry.relations) = 5
    /\ [j \in 1..Len(last.value[1].related) |-> last.value[1].related[j].id] = <<"b", "d">>
    /\ last.value[2].related = <<>>

\* The entries on the lines of file f, as written, in file order.
RawEntries(f) == [i \in 1..Len(EntryLines(f)) |-> EntryLines(f)[i].e]

\* The date ensureDate computes for an entry without one: the day of its
\* timestamp, or the current day when the timestamp does not parse.
ComputedDate(e) == IF e.timestamp \in {BADTS, UNDEFN} THEN now ELSE e.timestamp

\* C33: an entry's date, once set, is stable: across every step (load, save,
\* append, search, embed, link, migrate) an entry that is in the index file
\* with a date keeps that date, and a load returns it with that date; an
\* entry without a date stays without or gets the date computed from its
\* timestamp, and an appended entry is written with the date it came with
\* or, if it had none, with the computed one.
C33_DateStable ==
    [][\A before \in {RawEntries(files[plugin.indexPath])},
         after \in {RawEntries(files'[plugin.indexPath])} :
         /\ \A i \in 1..Min2(Len(before), Len(after)) :
               before[i].id = after[i].id =>
                  IF before[i].date # UNDEFN THEN after[i].date = before[i].date
                  ELSE after[i].date \in {UNDEFN, ComputedDate(before[i])}
         /\ Returns("loadIndex") =>
               \A loaded \in {last'.loaded[1].memories} :
                  /\ Len(loaded) = Len(before)
                  /\ \A i \in 1..Len(before) :
                        loaded[i].date = IF before[i].date # UNDEFN THEN before[i].date
                                         ELSE ComputedDate(before[i])
         /\ Returns("append") =>
               /\ Len(after) = Len(before) + 1
               /\ after[Len(after)].date =
                     IF last'.arg.date # UNDEFN THEN last'.arg.date
                     ELSE ComputedDate(last'.arg)]_vars

\* Two operations were run, the second a run of memory_v2_embed that saved
\* the index: entry a, whose timestamp is day 395, still has the date 100 it
\* had, and n1, whose timestamp does not parse, has the date the first
\* operation gave it, the day before the run.
C33_Witness ==
    /\ last.op = "embed" /\ last.embedded > 0 /\ now = StartDay + 2
    /\ \A raw \in {RawEntries(files[plugin.indexPath])} :
          /\ Len(raw) >= 3
          /\ raw[1].id = "a" /\ raw[1].timestamp = 395 /\ raw[1].date = 100
          /\ raw[3].id = "n1" /\ raw[3].timestamp = BADTS /\ raw[3].date = StartDay

\* C34: after any save or append no entry persisted by that write carries
\* its embedding as a plain numeric array: every write of the whole index
\* (by saveIndex itself, search, embed, link or migrate) leaves every
\* embedding of the file in the compact text encoding, an entry that had an
\* array then holding the same numbers encoded, and an append writes the
\* new entry with its embedding encoded.
C34_WritesEncodeEmbeddings ==
    [][\A before \in {RawEntries(files[plugin.indexPath])},
         after \in {RawEntries(files'[plugin.indexPath])} :
         /\ (files'[plugin.indexPath] # files[plugin.indexPath] /\ ~Returns("append")) =>
               /\ \A i \in 1..Len(after) : after[i].embedding.form # "array"
               /\ (~Returns("embed") /\ Len(after) = Len(before)) =>
                     \A i \in 1..Len(after) :
                        /\ HasEmbedding(after[i]) <=> HasEmbedding(before[i])
                        /\ getEmbeddingFloat32(after[i]) = getEmbeddingFloat32(before[i])
         /\ (Returns("saveIndex") \/ Returns("migrate")
             \/ (Returns("search") /\ ~last'.threw)
             \/ (Returns("link") /\ last'.error = {})
             \/ (Returns("embed") /\ last'.embedded > 0)) =>
               files'[plugin.indexPath] # files[plugin.indexPath]
         /\ Returns("append") =>
               /\ after[Len(after)].embedding.form # "array"
               /\ getEmbeddingFloat32(after[Len(after)]) = getEmbeddingFloat32(last'.arg)]_vars

\* A search ran on the index whose first entry had its embedding as the
\* array (3, 4): the file now holds it in the compact encoding.
C34_Witness ==
    /\ last.op = "search" /\ ~last.threw /\ now = StartDay + 1
    /\ \A raw \in {RawEntries(files[plugin.indexPath])} :
          /\ Len(raw) = 3 /\ raw[1].id = "a" /\ raw[1].date = 100
          /\ raw[1].embedding = encodeEmbedding(<<30, 40>>)
          /\ raw[1].embedding.form = "b64"

\* The number of entries without an embedding before that have one after.
NewlyEmbedded(before, after) ==
    Cardinality({i \in 1..Min2(Len(before), Len(after)) :
                    ~HasEmbedding(before[i]) /\ HasEmbedding(after[i])})

\* A run of memory_v2_embed without force leaves every embedding there was.
EmbeddingsKept(before, after) ==
    /\ Len(after) = Len(before)
    /\ \A i \in 1..Len(before) :
          HasEmbedding(before[i]) =>
             /\ HasEmbedding(after[i])
             /\ getEmbeddingFloat32(after[i]) = getEmbeddingFloat32(before[i])

NewlyEmbeddedIds(before, after) ==
    {before[i].id : i \in {k \in 1..Min2(Len(before), Len(after)) :
                             ~HasEmbedding(before[k]) /\ HasEmbedding(after[k])}}

\* C36: auto-linking is applied only to newly embedded entries: every edge a
\* run of memory_v2_embed without force adds to the persisted index has a
\* newly embedded entry at one end, so entries whose embedding predates the
\* run gain edges only as neighbours of a newly embedded entry.
C36_AutoLinkOnlyNewlyEmbedded ==
    [][(Returns("embed") /\ ~last'.force) =>
         \A before \in {Persisted(files)}, after \in {Persisted(files')} :
            \A m, n \in PersistedIds(files'), t \in MemoryRelationType :
               (HasEdge(after, m, n, t) /\ ~HasEdge(before, m, n, t)) =>
                  \/ m \in NewlyEmbeddedIds(before, after)
                  \/ n \in NewlyEmbeddedIds(before, after)]_vars

\* C37: no update is lost across the awaits of memory_v2_embed: every entry
\* and every relation that is in the index file when the run finishes,
\* those a memory_v2_link call or an append persisted while the run was
\* suspended included, is in the index file after it.
C37_NoLostUpdate ==
    [][Returns("embed") =>
         \A before \in {Persisted(files)}, after \in {Persisted(files')} :
            /\ \A i \in 1..Len(before) :
                  \E j \in 1..Len(after) : after[j].id = before[i].id
            /\ \A i \in 1..Len(before) :
                  \A k \in 1..Len(before[i].relations) :
                     HasEdge(after, before[i].id, before[i].relations[k].id,
                             before[i].relations[k].type)]_vars

\* What memory_v2_search must leave of an entry: everything but the access
\* tracking, the date and the form of the embedding.
SearchKeeps(e) ==
    [id |-> e.id, timestamp |-> e.timestamp, type |-> e.type,
     importance |-> e.importance, content |-> e.content, tags |-> e.tags,
     file |-> e.file, line |-> e.line, relations |-> e.relations,
     embedded |-> HasEmbedding(e), embedding |-> getEmbeddingFloat32(e)]

\* C38: memory_v2_search changes no persisted entry beyond access tracking:
\* after a search the index file holds the same entries in the same order
\* with the same id, timestamp, type, importance, content, tags, relations
\* and embedding value, and a date that was set is the same; a search that
\* throws leaves the file as it was.
C38_SearchKeepsEntries ==
    [][Returns("search") =>
         \A before \in {RawEntries(files[plugin.indexPath])},
            after \in {RawEntries(files'[plugin.indexPath])} :
            /\ Len(after) = Len(before)
            /\ \A i \in 1..Len(before) :
                  /\ SearchKeeps(after[i]) = SearchKeeps(before[i])
                  /\ before[i].date # UNDEFN => after[i].date = before[i].date
            /\ last'.threw => files' = files]_vars

\* A hybrid search ranked entry b first in the index whose first entry a
\* had an array embedding and whose second, b, had no date; the file holds
\* the three entries in their order, a with its date 100 and no relations,
\* b now with a date.
C38_Witness ==
    /\ last.op = "search" /\ ~last.threw /\ last.searchMode = "hybrid"
    /\ last.results # <<>> /\ last.results[1].id = "b"
    /\ \A raw \in {RawEntries(files[plugin.indexPath])} :
          /\ [i \in 1..Len(raw) |-> raw[i].id] = <<"a", "b", "n1">>
          /\ raw[1].date = 100 /\ raw[1].relations = <<>>
          /\ raw[2].date = 396

\* The state onRelayClosed leaves after a close: nothing pending, every
\* request that was pending rejected with the disconnect error, relayWs
\* cleared, no tab, no session, no child session.
ClosedCleanly ==
    /\ relay'.relayWs = 0
    /\ relay'.pending = {}
    /\ \A id \in relay.pending : relay'.requests[id] = "rejected: disconnected"
    /\ \A t \in TabIds : relay'.tabs[t].state = "none"
    /\ relay'.tabBySession = {}
    /\ relay'.childSessionToTab = {}

\* C39: when the relay connection (the open socket relayWs holds) closes,
\* every pending request is rejected with the disconnect error and removed,
\* relayWs is cleared and tabs, tabBySession and childSessionToTab are
\* emptied; at every moment the pending table holds exactly the requests
\* that are still unresolved, so a request whose send failed is not in it.
C39_CloseReleasesEverything ==
    /\ [][(RelayOpen(relay) /\ relay'.sockets[relay.relayWs].readyState = "CLOSED")
             => ClosedCleanly]_vars
    /\ [](relay.pending = {id \in CommandIds : relay.requests[id] = "pending"})

\* C40: at most one connection attempt is in flight and it is the one
\* relayConnectPromise holds; a call made while an attempt is in flight
\* starts none and awaits that one; a call that awaited an attempt returns
\* when the attempt was fulfilled and throws when it was rejected; no attempt
\* starts while relayWs is open; once the continuations of a settled attempt
\* have run relayConnectPromise is null again.
C40_CallsShareAttempt ==
    /\ [](/\ Cardinality(InFlight(relay)) <= 1
          /\ \A a \in InFlight(relay) : relay.relayConnectPromise = a
          /\ \A c \in 1..Len(relay.calls) :
                LET call == relay.calls[c] IN
                /\ call.pc = "await" => call.attempt \in 1..Len(relay.attempts)
                /\ call.role = "sharer" =>
                      \E d \in 1..(c - 1) : /\ relay.calls[d].role = "starter"
                                            /\ relay.calls[d].attempt = call.attempt
                /\ (call.pc = "returned" /\ call.role # "none") =>
                      /\ relay.attempts[call.attempt].pc \in {"fulfilled", "rejected"}
                      /\ call.ret = "ok" <=> relay.attempts[call.attempt].pc = "fulfilled"
          /\ (relay.microtasks = <<>> /\ relay.relayConnectPromise # 0)
                => relay.relayConnectPromise \in InFlight(relay))
    /\ [][/\ Len(relay'.attempts) > Len(relay.attempts)
             => (~RelayOpen(relay) /\ InFlight(relay) = {})
          /\ (Len(relay'.calls) > Len(relay.calls) /\ InFlight(relay) # {})
             => /\ relay'.attempts = relay.attempts
                /\ relay'.calls[Len(relay'.calls)].attempt \in InFlight(relay)]_vars

====
